---- MODULE Spec2Model ----
(***************************************************************************)
(* StepUpLeaderboard: the weekly leaderboard engine.                       *)
(*                                                                         *)
(* The model covers the tables participants, weekly_challenges,            *)
(* daily_steps and leaderboard_entries and the operations that write them: *)
(*   - saveParticipantsToDatabase  (CSV upload, TaskBoard.tsx)             *)
(*   - confirmSubmit / DataService.createLeaderboardEntry (manual entry)   *)
(*   - DataService.updateLeaderboardEntry (entry edit)                     *)
(*   - DataService.deleteParticipant                                       *)
(*   - DataService.recalculatePointsForWeek                                *)
(*   - GroupService.joinGroup                                              *)
(*   - getMondayWeekBounds / getWeekNumber (week resolution)               *)
(*                                                                         *)
(* Calendar dates are day numbers: day 0 is 2024-01-01, a Monday.          *)
(* A distance is counted in units of 0.0005 mile (one unit per step of the *)
(* default conversion of the manual entry form).                           *)
(***************************************************************************)
EXTENDS Integers, Sequences, FiniteSets, TLC

VARIABLES
    participants,        \* table participants: rows [id, group_id, user_id, name, email]
    weekly_challenges,   \* table weekly_challenges
    daily_steps,         \* table daily_steps
    leaderboard_entries, \* table leaderboard_entries
    nextPid,             \* the next fresh participants.id (ids are never reused)
    ops,                 \* the number of operations called so far
    tzEast,              \* the runtime's time zone is east of UTC (offset > 0)
    lastOp,              \* the operation that returned last, and how
    del,                 \* the deleteParticipant call in progress
    up,                  \* the CSV uploads in progress (interleaved uploads)
    anchor,              \* week resolution: the anchor date
    resolved,            \* week resolution: the result for the anchor
    csv,                 \* CSV parsing: the lines of the selected file
    parsed,              \* CSV parsing: the outcome of handleUploadProcess
    view,                \* the result of the last read operation
    groups,              \* table groups: the ids of the rows
    join                 \* the GroupService calls in progress, one per session

tables == <<participants, weekly_challenges, daily_steps, leaderboard_entries>>
vars == <<participants, weekly_challenges, daily_steps, leaderboard_entries,
          nextPid, ops, tzEast, lastOp, del, up, anchor, resolved, csv, parsed, view,
          groups, join>>

(***************************************************************************)
(* Bounds of the model.                                                    *)
(***************************************************************************)
MaxParticipants == 3     \* participant rows ever created
MaxOps == 3              \* operations called in one run
MaxTotal == 15           \* step totals typed into the manual entry form
MaxLines == 2            \* data lines of a CSV file
MaxWrites == 2           \* writes that precede a read

(***************************************************************************)
(* Calendar arithmetic of the JavaScript Date object, on day numbers.      *)
(***************************************************************************)
IsLeap(y) == (y % 4 = 0 /\ y % 100 # 0) \/ y % 400 = 0

DaysInYear(y) == IF IsLeap(y) THEN 366 ELSE 365

RECURSIVE YearStart(_)
\* new Date(y, 0, 1): the day number of 1 January of year y
YearStart(y) ==
    IF y = 2024 THEN 0
    ELSE IF y > 2024 THEN YearStart(y - 1) + DaysInYear(y - 1)
    ELSE YearStart(y + 1) - DaysInYear(y)

DaysInMonth(y, m) ==
    IF m = 2 THEN (IF IsLeap(y) THEN 29 ELSE 28)
    ELSE IF m \in {4, 6, 9, 11} THEN 30 ELSE 31

RECURSIVE DaysBeforeMonth(_, _)
DaysBeforeMonth(y, m) ==
    IF m = 1 THEN 0 ELSE DaysBeforeMonth(y, m - 1) + DaysInMonth(y, m - 1)

\* new Date('YYYY-MM-DD' + 'T00:00:00'): local midnight of the calendar date
Ymd(y, m, d) == YearStart(y) + DaysBeforeMonth(y, m) + (d - 1)

\* Date.prototype.getFullYear
getFullYear(d) == CHOOSE y \in 2020..2030 : YearStart(y) <= d /\ d < YearStart(y + 1)

\* Date.prototype.getDay: 0 = Sunday .. 6 = Saturday
getDay(d) == (d + 1) % 7

\* a variant without the adjustment for Sunday
MondayNoSundayAdjust(d) == d - getDay(d) + 1

\* const diff = d.getDate() - day + (day === 0 ? -6 : 1); new Date(d.setDate(diff))
MondayOf(d) == d - getDay(d) + (IF getDay(d) = 0 THEN -6 ELSE 1)

getMondayWeekBounds(d) == [monday |-> MondayOf(d), sunday |-> MondayOf(d) + 6]

\* Math.ceil(a / b) for a >= 0, b > 0
Ceil(a, b) == (a + b - 1) \div b

getWeekNumber(date) ==
    LET dayNum    == IF getDay(date) = 0 THEN 7 ELSE getDay(date)
        d         == date + 4 - dayNum
        yearStart == YearStart(getFullYear(d))
    IN  Ceil((d - yearStart) + 1, 7)

\* date.toISOString().split('T')[0] of a Date holding a local midnight: the
\* UTC calendar date, which is the day before when the zone is east of UTC
ToISODate(d, east) == IF east THEN d - 1 ELSE d

\* The week key and bounds saveParticipantsToDatabase derives from csvDates[0]
ResolveWeek(firstDate) ==
    [start       |-> getMondayWeekBounds(firstDate).monday,
     end         |-> getMondayWeekBounds(firstDate).sunday,
     week_number |-> getWeekNumber(firstDate),
     year        |-> getFullYear(firstDate)]


(***************************************************************************)
(* Inputs of the operations.                                               *)
(***************************************************************************)
Groups == {"g1", "g2"}            \* groups.id
DataGroups == {"g1"}              \* the group whose leaderboard is written
Users == {"u1"}                   \* auth users
FormNames == {"alice"}            \* names typed into the manual entry form
FormSteps == {9}                  \* step totals typed into the manual entry form
EditSteps == {2}                  \* step totals typed into the entry editor

\* user.user_metadata.full_name of an auth user
UserName(u) == "Alice"

\* An email address is held as its domain, the text after the @; "" is NULL.
\* user.email of an auth user: u2 is the user of create-test-user.js, whose
\* address is test@example.com
UserEmail(u) == IF u = "u2" THEN "example.com" ELSE "mail.com"

\* The CSV files uploaded, as handleUploadProcess hands them to
\* saveParticipantsToDatabase: dates is dateHeaders, rows is
\* participantsWithDailyData ([name, steps per date column] per kept row)
Row(name, steps) == [name |-> name, steps |-> steps]

CsvFiles ==
    { [dates |-> <<Ymd(2024, 1, 15)>>,
       rows  |-> <<Row("Alice", <<2>>), Row("Bob", <<1>>), Row("Cy", <<1>>)>>],
      [dates |-> <<Ymd(2024, 1, 15)>>,
       rows  |-> <<Row("Bob", <<1>>), Row("Alice", <<1>>)>>],
      [dates |-> <<Ymd(2024, 1, 15)>>,
       rows  |-> <<Row("Bob", <<2>>)>>],
      [dates |-> <<Ymd(2024, 1, 15), Ymd(2024, 1, 16)>>,
       rows  |-> <<Row("Alice", <<1, 2>>)>>],
      [dates |-> <<Ymd(2024, 1, 1)>>,
       rows  |-> <<Row("Alice", <<1>>), Row("Bob", <<2>>)>>],
      [dates |-> <<Ymd(2024, 12, 30)>>,
       rows  |-> <<Row("Alice", <<2>>)>>] }

\* Postgres ILIKE without wildcards compares case-insensitively
Lower(n) == IF n = "Alice" THEN "alice" ELSE IF n = "Bob" THEN "bob" ELSE n

(***************************************************************************)
(* The persistence layer (supabase / Postgres).                            *)
(***************************************************************************)
\* .single(): the row when exactly one row matches, else data = null
Single(S) == IF Cardinality(S) = 1 THEN S ELSE {}

EntryKey(e) == <<e.challenge_id, e.participant_id>>

WeekEntries(E, cid) == {e \in E : e.challenge_id = cid}

RECURSIVE SumSeq(_)
SumSeq(s) == IF s = <<>> THEN 0 ELSE Head(s) + SumSeq(Tail(s))

RECURSIVE SumSteps(_)
\* the sum of the steps column over a set of rows
SumSteps(S) ==
    IF S = {} THEN 0
    ELSE LET r == CHOOSE x \in S : TRUE IN r.steps + SumSteps(S \ {r})

(***************************************************************************)
(* DataService.recalculatePointsForWeek                                    *)
(***************************************************************************)
\* a variant ordering by ascending steps
OrdersAscending(S) ==
    {s \in [1..Cardinality(S) -> S] :
        /\ \A i, j \in DOMAIN s : i # j => s[i] # s[j]
        /\ \A i, j \in DOMAIN s : i < j => s[i].steps <= s[j].steps}

\* .order('steps', { ascending: false }): the rows in an order of
\* non-increasing steps; rows of equal steps come in any order
OrdersBySteps(S) ==
    {s \in [1..Cardinality(S) -> S] :
        /\ \A i, j \in DOMAIN s : i # j => s[i] # s[j]
        /\ \A i, j \in DOMAIN s : i < j => s[i].steps >= s[j].steps}

\* a variant that is off by one in the points
PointsOffByOne(n, i) == [points |-> n - i, rank |-> i]

\* points: totalParticipants - index, rank: index + 1 (index from 0)
PointsAndRank(n, i) == [points |-> n - (i - 1), rank |-> i]

\* a variant that writes rank and points only to the entries that have
\* none yet
UpdateUnsetPoints(E, cid, ord, fail) ==
    LET n == Len(ord)
        upd(i) == IF EntryKey(ord[i]) \in fail \/ ord[i].points # 0 THEN ord[i]
                  ELSE [ord[i] EXCEPT !.points = PointsAndRank(n, i).points,
                                      !.rank = PointsAndRank(n, i).rank]
    IN  (E \ WeekEntries(E, cid)) \cup {upd(i) : i \in 1..n}

\* The update loop over the fetched rows ord; fail holds the keys of the
\* entries whose update returns an error (logged, the loop goes on)
UpdatePoints(E, cid, ord, fail) ==
    LET n == Len(ord)
        upd(i) == IF EntryKey(ord[i]) \in fail THEN ord[i]
                  ELSE [ord[i] EXCEPT !.points = PointsAndRank(n, i).points,
                                      !.rank = PointsAndRank(n, i).rank]
    IN  (E \ WeekEntries(E, cid)) \cup {upd(i) : i \in 1..n}

\* a variant whose per-entry update has no .eq('id', update.id): the values
\* of the last update end up in every row of the table
RecalculateWithoutId(E, cid, ord, fail) ==
    IF WeekEntries(E, cid) = {} THEN E
    ELSE {[e EXCEPT !.points = PointsAndRank(Len(ord), Len(ord)).points,
                    !.rank = PointsAndRank(Len(ord), Len(ord)).rank] : e \in E}

recalculatePointsForWeek(E, cid, ord, fail) ==
    IF WeekEntries(E, cid) = {} THEN E ELSE UpdatePoints(E, cid, ord, fail)

\* the per-entry update errors an operation may meet: none, or one entry
FailChoices(E, cid) == {{}} \cup {{EntryKey(e)} : e \in WeekEntries(E, cid)}


(***************************************************************************)
(* saveParticipantsToDatabase (CSV upload)                                 *)
(***************************************************************************)
\* weekly_challenges rows matching .eq(group_id).eq(week_number).eq(year)
SelectChallenge(W, g, wk) ==
    {c \in W : c.group_id = g /\ c.week_number = wk.week_number /\ c.year = wk.year}

\* the row inserted when the select finds none
NewChallenge(W, g, wk, east) ==
    [id              |-> Cardinality(W) + 1,
     group_id        |-> g,
     week_start_date |-> ToISODate(wk.start, east),
     week_end_date   |-> ToISODate(wk.end, east),
     week_number     |-> wk.week_number,
     year            |-> wk.year]

\* [...participants].sort((a, b) => b.totalSteps - a.totalSteps): a stable
\* sort, rows of equal totals keep their file order
SortedParticipants(rows) ==
    LET before(i, j) == \/ SumSeq(rows[i].steps) > SumSeq(rows[j].steps)
                        \/ SumSeq(rows[i].steps) = SumSeq(rows[j].steps) /\ i < j
        pos(i) == Cardinality({j \in DOMAIN rows : before(j, i)}) + 1
    IN  [k \in DOMAIN rows |-> rows[CHOOSE i \in DOMAIN rows : pos(i) = k]]

\* participants rows matching .eq('group_id', g).ilike('name', name.trim())
ParticipantsByNameIlike(P, g, name) ==
    {p \in P : p.group_id = g /\ Lower(p.name) = Lower(name)}

\* participants rows matching .eq('group_id', g).eq('name', name)
ParticipantsByName(P, g, name) ==
    {p \in P : p.group_id = g /\ p.name = name}

\* the participant row inserted by the upload (user_id is null)
NewParticipant(id, g, name) ==
    [id |-> id, group_id |-> g, user_id |-> "", name |-> name, email |-> "uploaded.com"]

\* the participant row inserted by the manual entry form through
\* DataService.createParticipant (user_id is null)
CreatedParticipant(id, g, name) ==
    [id |-> id, group_id |-> g, user_id |-> "", name |-> name, email |-> "generated.com"]

\* daily_steps after the select-then-update-or-insert of one date column
WriteDaily(D, cid, pid, date, steps) ==
    {r \in D : ~(r.challenge_id = cid /\ r.participant_id = pid /\ r.step_date = date)}
        \cup {[challenge_id |-> cid, participant_id |-> pid,
               step_date |-> date, steps |-> steps]}

RECURSIVE WriteDailyData(_, _, _, _, _, _)
\* for (const dailyData of participant.dailyData) { ... }
WriteDailyData(D, cid, pid, dates, steps, k) ==
    IF k > Len(dates) THEN D
    ELSE WriteDailyData(WriteDaily(D, cid, pid, dates[k], steps[k]),
                        cid, pid, dates, steps, k + 1)

\* leaderboard_entries after the select-then-update-or-insert of the entry
WriteEntry(E, cid, pid, steps, distance, points, rank) ==
    {e \in E : EntryKey(e) # <<cid, pid>>}
        \cup {[challenge_id |-> cid, participant_id |-> pid, steps |-> steps,
               distance_mi |-> distance, points |-> points, rank |-> rank]}

\* One pass of the loop over sortedParticipants, index i from 1, of n rows.
\* The CSV files have no distance column: totalDistance is 0.
ProcessParticipant(db, g, cid, dates, row, i, n) ==
    LET found == Single(ParticipantsByName(db.participants, g, row.name))
        pid   == IF found = {} THEN db.nextPid ELSE (CHOOSE p \in found : TRUE).id
        rank   == i
        points == n - (i - 1)
    IN  [participants |->
             IF found = {} THEN db.participants \cup {NewParticipant(pid, g, row.name)}
             ELSE db.participants,
         nextPid |-> IF found = {} THEN db.nextPid + 1 ELSE db.nextPid,
         daily_steps |-> WriteDailyData(db.daily_steps, cid, pid, dates, row.steps, 1),
         leaderboard_entries |->
             WriteEntry(db.leaderboard_entries, cid, pid, SumSeq(row.steps), 0,
                        points, rank),
         weekly_challenges |-> db.weekly_challenges]

RECURSIVE ProcessParticipants(_, _, _, _, _, _)
ProcessParticipants(db, g, cid, dates, sorted, i) ==
    IF i > Len(sorted) THEN db
    ELSE ProcessParticipants(
             ProcessParticipant(db, g, cid, dates, sorted[i], i, Len(sorted)),
             g, cid, dates, sorted, i + 1)

\* the id of the weekly challenge the upload writes to
UploadChallengeId(W, g, dates) ==
    LET existing == Single(SelectChallenge(W, g, ResolveWeek(dates[1])))
    IN  IF existing = {} THEN Cardinality(W) + 1
        ELSE (CHOOSE c \in existing : TRUE).id

saveParticipantsToDatabase(db, g, dates, rows, east) ==
    LET wk       == ResolveWeek(dates[1])
        existing == Single(SelectChallenge(db.weekly_challenges, g, wk))
        W        == IF existing = {}
                    THEN db.weekly_challenges
                             \cup {NewChallenge(db.weekly_challenges, g, wk, east)}
                    ELSE db.weekly_challenges
        cid      == UploadChallengeId(db.weekly_challenges, g, dates)
    IN  ProcessParticipants([db EXCEPT !.weekly_challenges = W], g, cid, dates,
                            SortedParticipants(rows), 1)


(***************************************************************************)
(* DataService.createLeaderboardEntry (manual entry)                       *)
(***************************************************************************)
\* a variant that gives the remainder to one day too many
StepsForDayInclusive(total, i) == (total \div 7) + (IF i <= total % 7 THEN 1 ELSE 0)

\* stepsForDay = Math.floor(total / 7) + (i < total % 7 ? 1 : 0), i from 0
StepsForDay(total, i) == (total \div 7) + (IF i < total % 7 THEN 1 ELSE 0)

RECURSIVE UpsertDailyEntries(_, _, _, _, _, _)
\* the seven upserts on (participant_id, challenge_id, step_date); the date
\* of day i is week_start_date + i
UpsertDailyEntries(D, cid, pid, start, total, i) ==
    IF i > 6 THEN D
    ELSE UpsertDailyEntries(WriteDaily(D, cid, pid, start + i, StepsForDay(total, i)),
                            cid, pid, start, total, i + 1)

\* the upsert on (participant_id, challenge_id): steps, distance_mi and
\* points (0) are written, the rank of an existing row is kept, a new row
\* has rank NULL (0)
UpsertEntry(E, cid, pid, steps, distance) ==
    LET old == {e \in E : EntryKey(e) = <<cid, pid>>}
        rank == IF old = {} THEN 0 ELSE (CHOOSE e \in old : TRUE).rank
    IN  WriteEntry(E, cid, pid, steps, distance, 0, rank)

(***************************************************************************)
(* The state.                                                              *)
(***************************************************************************)
\* op: the operation; ok: it returned without throwing; weeks: the weekly
\* challenges it wrote to or recalculated; p: the participant it was given;
\* failed: a per-entry rank/points update returned an error; before: the
\* number of entries each of these weeks had when the operation was called
EntryCounts(weeks) ==
    [w \in weeks |-> Cardinality(WeekEntries(leaderboard_entries, w))]

Returned(op, ok, weeks, p, failed) ==
    [op |-> op, ok |-> ok, weeks |-> weeks, p |-> p, failed |-> failed,
     before |-> EntryCounts(weeks)]

Idle == [pc |-> "idle", p |-> 0, g |-> "", weeks |-> {}, todo |-> {}, failed |-> FALSE,
         before |-> <<>>]

DB == [participants |-> participants, weekly_challenges |-> weekly_challenges,
       daily_steps |-> daily_steps, leaderboard_entries |-> leaderboard_entries,
       nextPid |-> nextPid]

Init ==
    /\ participants = {}
    /\ weekly_challenges = {}
    /\ daily_steps = {}
    /\ leaderboard_entries = {}
    /\ nextPid = 1
    /\ ops = 0
    /\ tzEast \in BOOLEAN
    /\ lastOp = Returned("none", TRUE, {}, 0, FALSE)
    /\ del = Idle
    /\ up = <<>>
    /\ anchor = 0
    /\ resolved = <<>>
    /\ csv = <<>>
    /\ parsed = <<>>
    /\ view = <<>>
    /\ groups = Groups
    /\ join = <<>>

(***************************************************************************)
(* The operations, each running to completion (spec section 5).            *)
(***************************************************************************)
\* handleUploadProcess -> saveParticipantsToDatabase
Upload(g, dates, rows) ==
    /\ del.pc = "idle"
    /\ ops < MaxOps
    /\ ops' = ops + 1
    /\ LET r == saveParticipantsToDatabase(DB, g, dates, rows, tzEast)
       IN  /\ r.nextPid <= MaxParticipants + 1
           /\ participants' = r.participants
           /\ weekly_challenges' = r.weekly_challenges
           /\ daily_steps' = r.daily_steps
           /\ leaderboard_entries' = r.leaderboard_entries
           /\ nextPid' = r.nextPid
    /\ lastOp' = Returned("upload", TRUE,
                          {UploadChallengeId(weekly_challenges, g, dates)}, 0, FALSE)
    /\ UNCHANGED <<tzEast, del, up, anchor, resolved, csv, parsed, view, groups, join>>

\* ManualEntryForm.confirmSubmit -> createLeaderboardEntry
ManualEntry(g, name, cid, steps) ==
    /\ del.pc = "idle"
    /\ ops < MaxOps
    /\ ops' = ops + 1
    /\ \E c \in weekly_challenges : c.id = cid /\ c.group_id = g
    /\ LET found == ParticipantsByNameIlike(participants, g, name)
           week  == CHOOSE c \in weekly_challenges : c.id = cid
       IN  \E pid \in IF found = {} THEN {nextPid} ELSE {p.id : p \in found} :
             /\ found = {} => nextPid <= MaxParticipants
             /\ participants' = IF found = {}
                                THEN participants \cup {CreatedParticipant(pid, g, name)}
                                ELSE participants
             /\ nextPid' = IF found = {} THEN nextPid + 1 ELSE nextPid
             /\ daily_steps' = UpsertDailyEntries(daily_steps, cid, pid,
                                                  week.week_start_date, steps, 0)
             /\ LET E == UpsertEntry(leaderboard_entries, cid, pid, steps, steps)
                IN  \E ord \in OrdersBySteps(WeekEntries(E, cid)),
                       fail \in FailChoices(E, cid) :
                      /\ leaderboard_entries' =
                             recalculatePointsForWeek(E, cid, ord, fail)
                      /\ lastOp' = Returned("manual", TRUE, {cid}, pid, fail # {})
    /\ UNCHANGED <<weekly_challenges, tzEast, del, up, anchor, resolved, csv,
                   parsed, view, groups, join>>

\* a variant without the .eq('participant_id', participantId) of the
\* verifying select: the entry is updated whoever asks
EditEntryUnverified(cid, owner, pid, steps) ==
    /\ del.pc = "idle"
    /\ ops < MaxOps
    /\ ops' = ops + 1
    /\ \E e \in leaderboard_entries : EntryKey(e) = <<cid, owner>>
    /\ LET old == CHOOSE e \in leaderboard_entries : EntryKey(e) = <<cid, owner>>
           E   == (leaderboard_entries \ {old}) \cup {[old EXCEPT !.steps = steps]}
       IN  \E ord \in OrdersBySteps(WeekEntries(E, cid)),
              fail \in FailChoices(E, cid) :
             /\ leaderboard_entries' = recalculatePointsForWeek(E, cid, ord, fail)
             /\ lastOp' = Returned("edit", TRUE, {cid}, pid, fail # {})
    /\ UNCHANGED <<participants, weekly_challenges, daily_steps, nextPid, tzEast,
                   del, up, anchor, resolved, csv, parsed, view,
                   groups, join>>

\* EntryEditor.handleSave -> updateLeaderboardEntry(entryId, updates, participantId);
\* the entry is named by its key (cid, owner); the distance of the form is
\* the entry's own
EditEntry(cid, owner, pid, steps) ==
    /\ del.pc = "idle"
    /\ ops < MaxOps
    /\ ops' = ops + 1
    /\ \E e \in leaderboard_entries : EntryKey(e) = <<cid, owner>>
    /\ IF owner # pid
       THEN /\ lastOp' = Returned("edit", FALSE, {}, pid, FALSE)
            /\ UNCHANGED leaderboard_entries
       ELSE LET old == CHOOSE e \in leaderboard_entries : EntryKey(e) = <<cid, owner>>
                E   == (leaderboard_entries \ {old}) \cup {[old EXCEPT !.steps = steps]}
            IN  \E ord \in OrdersBySteps(WeekEntries(E, cid)),
                   fail \in FailChoices(E, cid) :
                  /\ leaderboard_entries' = recalculatePointsForWeek(E, cid, ord, fail)
                  /\ lastOp' = Returned("edit", TRUE, {cid}, pid, fail # {})
    /\ UNCHANGED <<participants, weekly_challenges, daily_steps, nextPid, tzEast,
                   del, up, anchor, resolved, csv, parsed, view,
                   groups, join>>

\* GroupService.joinGroup -> addUserToGroup
JoinGroup(u, g) ==
    /\ del.pc = "idle"
    /\ ops < MaxOps
    /\ ops' = ops + 1
    /\ IF \E p \in participants : p.group_id = g /\ p.user_id = u
       THEN /\ lastOp' = Returned("join", FALSE, {}, 0, FALSE)
            /\ UNCHANGED <<participants, nextPid>>
       ELSE /\ nextPid <= MaxParticipants
            /\ participants' = participants \cup
                   {[id |-> nextPid, group_id |-> g, user_id |-> u, name |-> UserName(u),
                     email |-> UserEmail(u)]}
            /\ nextPid' = nextPid + 1
            /\ lastOp' = Returned("join", TRUE, {}, nextPid, FALSE)
    /\ UNCHANGED <<weekly_challenges, daily_steps, leaderboard_entries, tzEast,
                   del, up, anchor, resolved, csv, parsed, view,
                   groups, join>>


(***************************************************************************)
(* DataService.deleteParticipant, one action per persistence call.         *)
(***************************************************************************)
\* a variant that leaves the daily_steps rows in place
KeepDailySteps(D, pid) == D

\* .from('daily_steps').delete().eq('participant_id', participantId)
DeleteDailySteps(D, pid) == {r \in D : r.participant_id # pid}

\* a variant that leaves the leaderboard_entries rows in place
KeepEntries(E, pid) == E

\* .from('leaderboard_entries').delete().eq('participant_id', participantId)
DeleteEntries(E, pid) == {e \in E : e.participant_id # pid}

\* .from('participants').delete().eq('id', participantId).eq('group_id', groupId)
DeleteParticipantRow(P, pid, g) == {p \in P : ~(p.id = pid /\ p.group_id = g)}

\* .from('leaderboard_entries').select('challenge_id').eq('participant_id', ...)
AffectedWeeks(E, pid) == {e.challenge_id : e \in {x \in E : x.participant_id = pid}}

\* steps 1 and 2: verify the participant, read the weeks of its entries
DelStart(pid, g) ==
    /\ del.pc = "idle"
    /\ ops < MaxOps
    /\ ops' = ops + 1
    /\ IF \E p \in participants : p.id = pid /\ p.group_id = g
       THEN /\ del' = [pc |-> "delDaily", p |-> pid, g |-> g,
                       weeks |-> AffectedWeeks(leaderboard_entries, pid),
                       todo |-> {}, failed |-> FALSE,
                       before |-> EntryCounts(AffectedWeeks(leaderboard_entries, pid))]
            /\ UNCHANGED lastOp
       ELSE /\ lastOp' = Returned("delete", FALSE, {}, pid, FALSE)
            /\ UNCHANGED del
    /\ UNCHANGED <<participants, weekly_challenges, daily_steps, leaderboard_entries,
                   nextPid, tzEast, up, anchor, resolved, csv, parsed, view,
                   groups, join>>

\* step 3: delete the participant's daily_steps rows
DelDaily ==
    /\ del.pc = "delDaily"
    /\ daily_steps' = DeleteDailySteps(daily_steps, del.p)
    /\ del' = [del EXCEPT !.pc = "delEntries"]
    /\ UNCHANGED <<ops, participants, weekly_challenges, leaderboard_entries, nextPid,
                   tzEast, lastOp, up, anchor, resolved, csv, parsed, view,
                   groups, join>>

\* step 4: delete the participant's leaderboard_entries rows
DelEntries ==
    /\ del.pc = "delEntries"
    /\ leaderboard_entries' = DeleteEntries(leaderboard_entries, del.p)
    /\ del' = [del EXCEPT !.pc = "delParticipant"]
    /\ UNCHANGED <<ops, participants, weekly_challenges, daily_steps, nextPid,
                   tzEast, lastOp, up, anchor, resolved, csv, parsed, view,
                   groups, join>>

\* step 4, second delete: the participant row
DelParticipant ==
    /\ del.pc = "delParticipant"
    /\ participants' = DeleteParticipantRow(participants, del.p, del.g)
    /\ del' = [del EXCEPT !.pc = "recalc", !.todo = del.weeks]
    /\ UNCHANGED <<ops, weekly_challenges, daily_steps, leaderboard_entries, nextPid,
                   tzEast, lastOp, up, anchor, resolved, csv, parsed, view,
                   groups, join>>

\* one of the three deletes returns an error: deleteParticipant throws, the
\* rows already deleted stay deleted
DelFail ==
    /\ del.pc \in {"delDaily", "delEntries", "delParticipant"}
    /\ lastOp' = [Returned("delete", FALSE, del.weeks, del.p, FALSE)
                      EXCEPT !.before = del.before]
    /\ del' = Idle
    /\ UNCHANGED <<ops, participants, weekly_challenges, daily_steps, leaderboard_entries,
                   nextPid, tzEast, up, anchor, resolved, csv, parsed, view,
                   groups, join>>

\* step 5: for (const weekId of affectedWeeks) recalculatePointsForWeek(weekId)
DelRecalc ==
    /\ del.pc = "recalc"
    /\ \E cid \in del.todo :
         \E ord \in OrdersBySteps(WeekEntries(leaderboard_entries, cid)),
            fail \in FailChoices(leaderboard_entries, cid) :
           /\ leaderboard_entries' =
                  recalculatePointsForWeek(leaderboard_entries, cid, ord, fail)
           /\ del' = [del EXCEPT !.todo = del.todo \ {cid},
                                 !.failed = del.failed \/ fail # {}]
    /\ UNCHANGED <<ops, participants, weekly_challenges, daily_steps, nextPid,
                   tzEast, lastOp, up, anchor, resolved, csv, parsed, view,
                   groups, join>>

\* return { success: true, affectedWeeks }
DelReturn ==
    /\ del.pc = "recalc"
    /\ del.todo = {}
    /\ lastOp' = [Returned("delete", TRUE, del.weeks, del.p, del.failed)
                      EXCEPT !.before = del.before]
    /\ del' = Idle
    /\ UNCHANGED <<ops, participants, weekly_challenges, daily_steps, leaderboard_entries,
                   nextPid, tzEast, up, anchor, resolved, csv, parsed, view,
                   groups, join>>

Next ==
    \/ \E g \in DataGroups, f \in CsvFiles : Upload(g, f.dates, f.rows)
    \/ \E g \in DataGroups, name \in FormNames, c \in weekly_challenges,
          steps \in FormSteps : ManualEntry(g, name, c.id, steps)
    \/ \E e \in leaderboard_entries, p \in participants, steps \in EditSteps :
         EditEntry(e.challenge_id, e.participant_id, p.id, steps)
    \/ \E u \in Users, g \in DataGroups : JoinGroup(u, g)
    \/ \E pid \in 1..MaxParticipants, g \in Groups : DelStart(pid, g)
    \/ DelDaily
    \/ DelEntries
    \/ DelParticipant
    \/ DelFail
    \/ DelRecalc
    \/ DelReturn

Spec == Init /\ [][Next]_vars


(***************************************************************************)
(* Properties of the sequential operations.                                *)
(***************************************************************************)
\* no operation is in progress
Quiet == del.pc = "idle"

\* the last operation returned normally, ended with recalculatePointsForWeek
\* on the weeks lastOp.weeks, and no per-entry update of it failed
Recalculated ==
    /\ Quiet
    /\ lastOp.op \in {"manual", "edit", "delete"}
    /\ lastOp.ok
    /\ ~lastOp.failed

\* among the N entries of week w each of 1..N is the points of exactly one
\* entry
PointsArePermutation(w) ==
    LET W == WeekEntries(leaderboard_entries, w)
    IN  \A k \in 1..Cardinality(W) : Cardinality({e \in W : e.points = k}) = 1

RanksArePermutation(w) ==
    LET W == WeekEntries(leaderboard_entries, w)
    IN  \A k \in 1..Cardinality(W) : Cardinality({e \in W : e.rank = k}) = 1

\* C1: after recalculatePointsForWeek(w) returned with no per-entry update
\* failing, the points of the N >= 1 entries of week w are exactly 1..N, each
\* held by one entry, the ranks are exactly 1..N, and rank + points = N + 1
\* for every entry.
C1_PointsAndRanksArePermutations ==
    Recalculated =>
        \A w \in lastOp.weeks :
            /\ PointsArePermutation(w)
            /\ RanksArePermutation(w)
            /\ \A e \in WeekEntries(leaderboard_entries, w) :
                   e.rank + e.points = Cardinality(WeekEntries(leaderboard_entries, w)) + 1

\* C1 witness: an entry edit has recalculated a week of three entries
C1_Witness ==
    /\ Recalculated
    /\ lastOp.op = "edit"
    /\ \E w \in lastOp.weeks : Cardinality(WeekEntries(leaderboard_entries, w)) = 3

\* C2: after a successful recalculatePointsForWeek(w), for entries a, b of
\* week w, steps(a) > steps(b) implies points(a) > points(b) and
\* rank(a) < rank(b).
C2_MoreStepsMorePoints ==
    Recalculated =>
        \A w \in lastOp.weeks :
            \A a, b \in WeekEntries(leaderboard_entries, w) :
                a.steps > b.steps => a.points > b.points /\ a.rank < b.rank

\* C2 witness: a recalculated week holds entries of different steps and two
\* entries of equal steps, which have different points
C2_Witness ==
    /\ Recalculated
    /\ \E w \in lastOp.weeks :
         \E a, b, c \in WeekEntries(leaderboard_entries, w) :
            a.steps > b.steps /\ b.steps = c.steps /\ b.points # c.points

\* C3 (as claimed): after a CSV upload into a week, the points of the week's
\* entries, those of participants not in the file included, are exactly
\* 1..N.
C3_UploadLeavesPermutation ==
    (Quiet /\ lastOp.op = "upload") =>
        \A w \in lastOp.weeks : PointsArePermutation(w)

\* the daily_steps rows of one participant in one week
DailyOf(cid, pid) ==
    {r \in daily_steps : r.challenge_id = cid /\ r.participant_id = pid}

\* C4 (as claimed): after completed uploads, manual entries and entry edits,
\* for every leaderboard entry the participant's daily_steps.steps of that
\* week sum to the entry's steps.
C4_DailySumEqualsEntrySteps ==
    Quiet =>
        \A e \in leaderboard_entries :
            SumSteps(DailyOf(e.challenge_id, e.participant_id)) = e.steps

\* the four tables of a database value
TablesOf(db) ==
    <<db.participants, db.weekly_challenges, db.daily_steps, db.leaderboard_entries>>

\* C5 (as claimed): uploading the identical CSV a second time for the same
\* group leaves every table as it was after the first upload.
C5_SecondUploadChangesNothing ==
    Quiet =>
        \A g \in DataGroups, f \in CsvFiles :
            LET once  == saveParticipantsToDatabase(DB, g, f.dates, f.rows, tzEast)
                twice == saveParticipantsToDatabase(once, g, f.dates, f.rows, tzEast)
            IN  TablesOf(twice) = TablesOf(once)

\* deleteParticipant(p, g) returned success and every persistence call of it,
\* the per-entry rank/points updates included, returned no error
Deleted == Recalculated /\ lastOp.op = "delete"

C7_Order ==
    /\ del.pc \in {"delDaily", "delEntries", "delParticipant"} =>
          \E p \in participants : p.id = del.p
    /\ del.pc \in {"delDaily", "delEntries"} =>
          \A w \in del.weeks : \E e \in leaderboard_entries : EntryKey(e) = <<w, del.p>>
    /\ del.pc \in {"delEntries", "delParticipant", "recalc"} =>
          \A r \in daily_steps : r.participant_id # del.p
    /\ del.pc \in {"delParticipant", "recalc"} =>
          \A e \in leaderboard_entries : e.participant_id # del.p
    /\ del.pc = "recalc" => \A p \in participants : p.id # del.p

\* a step taken before the participant row is deleted changes rank or points
\* of no entry
C7_NoEarlyRecalc ==
    (\E p \in participants' : p.id = del.p) =>
        \A e \in leaderboard_entries' : e \in leaderboard_entries

\* C7: deleteParticipant deletes the participant's daily_steps rows, then its
\* leaderboard_entries rows, then the participant row, and only then
\* recalculates the weeks the participant had entries in.
C7_DeleteOrder ==
    [](C7_Order) /\ [][del.pc # "idle" => C7_NoEarlyRecalc]_vars

\* C7 witness: the recalculation of two weeks is about to start, all three
\* deletes done
C7_Witness ==
    /\ del.pc = "recalc"
    /\ Cardinality(del.todo) = 2
    /\ \E w \in del.todo : Cardinality(WeekEntries(leaderboard_entries, w)) = 2


(***************************************************************************)
(* Uploads only: the runs that consist of CSV uploads.                     *)
(***************************************************************************)
NextUploads == \E g \in DataGroups, f \in CsvFiles : Upload(g, f.dates, f.rows)

SpecUploads == Init /\ [][NextUploads]_vars

\* C9 (as claimed): after any sequence of CSV uploads into a group no two
\* weekly_challenges rows of a group share (week_number, year), and the data
\* stored under one weekly_challenges row belongs to one Monday-Sunday week.
C9_OneCalendarWeekPerChallenge ==
    /\ \A c1, c2 \in weekly_challenges :
          (c1.group_id = c2.group_id /\ c1.week_number = c2.week_number
              /\ c1.year = c2.year) => c1 = c2
    /\ \A r1, r2 \in daily_steps :
          r1.challenge_id = r2.challenge_id =>
              MondayOf(r1.step_date) = MondayOf(r2.step_date)

(***************************************************************************)
(* Week resolution as a function of the anchor date.                       *)
(***************************************************************************)
FirstAnchor == Ymd(2023, 12, 25)
LastAnchor == Ymd(2025, 1, 12)

InitWeek ==
    /\ participants = {}
    /\ weekly_challenges = {}
    /\ daily_steps = {}
    /\ leaderboard_entries = {}
    /\ nextPid = 1
    /\ ops = 0
    /\ tzEast = FALSE
    /\ lastOp = Returned("none", TRUE, {}, 0, FALSE)
    /\ del = Idle
    /\ up = <<>>
    /\ anchor \in FirstAnchor..LastAnchor
    /\ resolved = <<>>
    /\ csv = <<>>
    /\ parsed = <<>>
    /\ view = <<>>
    /\ groups = Groups
    /\ join = <<>>

\* getMondayWeekBounds(firstDate), getWeekNumber(firstDate), getFullYear()
Resolve ==
    /\ resolved = <<>>
    /\ resolved' = ResolveWeek(anchor)
    /\ UNCHANGED <<participants, weekly_challenges, daily_steps, leaderboard_entries,
                   nextPid, ops, tzEast, lastOp, del, up, anchor,
                   csv, parsed, view, groups, join>>

NextWeek == Resolve

SpecWeek == InitWeek /\ [][NextWeek]_vars

\* ISO 8601: the week number of d is the number of Thursdays of the year of
\* the Thursday of d's week, up to that Thursday
IsoWeekNumber(d) ==
    LET thu == CHOOSE t \in (d - 3)..(d + 3) :
                   getDay(t) = 4
    IN  Cardinality({t \in YearStart(getFullYear(thu))..thu : getDay(t) = 4})

\* C10: for every anchor date d the resolver returns start = the Monday on or
\* before d and end = start + 6, so start <= d <= end, with the ISO week
\* number of d; every date from 2024-01-15 to 2024-01-21 yields start
\* 2024-01-15, end 2024-01-21, week_number 3, year 2024.
C10_WeekResolution ==
    resolved # <<>> =>
        /\ getDay(resolved.start) = 1
        /\ resolved.end = resolved.start + 6
        /\ resolved.start <= anchor /\ anchor <= resolved.end
        /\ resolved.week_number = IsoWeekNumber(anchor)
        /\ anchor \in Ymd(2024, 1, 15)..Ymd(2024, 1, 21) =>
              resolved = [start |-> Ymd(2024, 1, 15), end |-> Ymd(2024, 1, 21),
                          week_number |-> 3, year |-> 2024]

\* C10 witness: the week of Sunday 2024-01-21 has been resolved
C10_Witness ==
    /\ resolved # <<>>
    /\ anchor = Ymd(2024, 1, 21)
    /\ resolved.start = Ymd(2024, 1, 15)


\* the Thursday of the Monday-Sunday week of d
ThursdayOf(d) == CHOOSE t \in (d - 3)..(d + 3) : getDay(t) = 4

\* C11 (as claimed): the year of a resolved week is the calendar year of the
\* Thursday of the anchor's week; Monday 2024-12-30 resolves to week 1 of
\* year 2025.
C11_YearOfThursday ==
    resolved # <<>> =>
        /\ resolved.year = getFullYear(ThursdayOf(anchor))
        /\ anchor = Ymd(2024, 12, 30) =>
              resolved.week_number = 1 /\ resolved.year = 2025

(***************************************************************************)
(* Manual entries into the week of one uploaded CSV file.                  *)
(***************************************************************************)
\* the step totals typed into the form
ManualTotals == (0..MaxTotal) \cup {700, 703}

EmptyDB == [participants |-> {}, weekly_challenges |-> {}, daily_steps |-> {},
            leaderboard_entries |-> {}, nextPid |-> 1]

\* the tables after one CSV upload into the empty tables
InitManual ==
    /\ tzEast \in BOOLEAN
    /\ \E g \in DataGroups, f \in CsvFiles :
         LET db == saveParticipantsToDatabase(EmptyDB, g, f.dates, f.rows, tzEast)
         IN  /\ participants = db.participants
             /\ weekly_challenges = db.weekly_challenges
             /\ daily_steps = db.daily_steps
             /\ leaderboard_entries = db.leaderboard_entries
             /\ nextPid = db.nextPid
    /\ ops = 0
    /\ lastOp = Returned("none", TRUE, {}, 0, FALSE)
    /\ del = Idle
    /\ up = <<>>
    /\ anchor = 0
    /\ resolved = <<>>
    /\ csv = <<>>
    /\ parsed = <<>>
    /\ view = <<>>
    /\ groups = Groups
    /\ join = <<>>

NextManual ==
    \E g \in DataGroups, name \in FormNames, c \in weekly_challenges,
       steps \in ManualTotals : ManualEntry(g, name, c.id, steps)

SpecManual == InitManual /\ [][NextManual]_vars

\* the daily_steps rows of participant pid in week cid on day i of the week
\* (0-based, counted from week_start_date)
DailyOn(cid, pid, i) ==
    {r \in DailyOf(cid, pid) :
        \E c \in weekly_challenges : c.id = cid /\ r.step_date = c.week_start_date + i}

\* C12: after createLeaderboardEntry with total T the participant has one
\* daily_steps row on each of the 7 dates from week_start_date, day i holding
\* floor(T/7) + 1 steps if i < T mod 7 and floor(T/7) otherwise, and the 7
\* values sum to T.
C12_ManualDistribution ==
    (lastOp.op = "manual" /\ lastOp.ok) =>
        \A w \in lastOp.weeks :
            LET T == (CHOOSE e \in leaderboard_entries :
                          EntryKey(e) = <<w, lastOp.p>>).steps
                week == UNION {DailyOn(w, lastOp.p, i) : i \in 0..6}
            IN  /\ \A i \in 0..6 :
                      /\ Cardinality(DailyOn(w, lastOp.p, i)) = 1
                      /\ \A r \in DailyOn(w, lastOp.p, i) :
                             r.steps = IF i < T % 7 THEN (T \div 7) + 1 ELSE T \div 7
                /\ Cardinality(week) = 7
                /\ SumSteps(week) = T

\* C12 witness: a manual entry of 703 steps has been distributed
C12_Witness ==
    /\ lastOp.op = "manual" /\ lastOp.ok
    /\ \E e \in leaderboard_entries :
          /\ e.participant_id = lastOp.p /\ e.challenge_id \in lastOp.weeks
          /\ e.steps = 703
          /\ \E r \in DailyOn(e.challenge_id, lastOp.p, 2) : r.steps = 101
          /\ \E r \in DailyOn(e.challenge_id, lastOp.p, 3) : r.steps = 100

(***************************************************************************)
(* handleUploadProcess: parsing the selected CSV file, then saving it.     *)
(***************************************************************************)
\* the text of a cell after trim and removal of quotes
Cells == {"", "x", "3", "-2"}

\* the text of the name column
RawNames == {"", "Alice", "Bob"}

\* the date columns of the header line
CsvDateHeaders == <<Ymd(2024, 1, 15), Ymd(2024, 1, 16)>>

\* a data line: the name cell and the cells of the date columns
RawLines == [name : RawNames, cells : [DOMAIN CsvDateHeaders -> Cells]]

RawFiles == UNION {[1..n -> RawLines] : n \in 1..MaxLines}

\* parseInt(text): the set holding the number, empty for NaN
parseInt(text) == IF text = "3" THEN {3} ELSE IF text = "-2" THEN {0 - 2} ELSE {}

\* parseInt(values[dateColumnIndex]) || 0
StepsOfCell(text) ==
    IF parseInt(text) = {} THEN 0 ELSE CHOOSE n \in parseInt(text) : TRUE

\* if (values.length > nameIndex && values[nameIndex])
RowIsKept(line) == line.name # ""

RECURSIVE ParseRows(_)
\* for (let i = 1; i < lines.length; i++) { ... participantsWithDailyData.push }
ParseRows(lines) ==
    IF lines = <<>> THEN <<>>
    ELSE LET line == Head(lines)
             row  == Row(line.name, [j \in DOMAIN line.cells |-> StepsOfCell(line.cells[j])])
         IN  IF RowIsKept(line) THEN <<row>> \o ParseRows(Tail(lines))
             ELSE ParseRows(Tail(lines))

InitCsv ==
    /\ participants = {}
    /\ weekly_challenges = {}
    /\ daily_steps = {}
    /\ leaderboard_entries = {}
    /\ nextPid = 1
    /\ ops = 0
    /\ tzEast = FALSE
    /\ lastOp = Returned("none", TRUE, {}, 0, FALSE)
    /\ del = Idle
    /\ up = <<>>
    /\ anchor = 0
    /\ resolved = <<>>
    /\ csv \in RawFiles
    /\ parsed = <<>>
    /\ view = <<>>
    /\ groups = Groups
    /\ join = <<>>

\* handleUploadProcess: parse, throw when no row is kept, else save
HandleUploadProcess(g) ==
    /\ parsed = <<>>
    /\ LET rows == ParseRows(csv)
       IN  IF rows = <<>>
           THEN /\ parsed' = [ok |-> FALSE, rows |-> rows,
                              error |-> "No valid participant data found in CSV file."]
                /\ UNCHANGED <<tables, nextPid>>
           ELSE LET r == saveParticipantsToDatabase(DB, g, CsvDateHeaders, rows, tzEast)
                IN  /\ parsed' = [ok |-> TRUE, rows |-> rows, error |-> ""]
                    /\ participants' = r.participants
                    /\ weekly_challenges' = r.weekly_challenges
                    /\ daily_steps' = r.daily_steps
                    /\ leaderboard_entries' = r.leaderboard_entries
                    /\ nextPid' = r.nextPid
    /\ UNCHANGED <<ops, tzEast, lastOp, del, up, anchor, resolved, csv, view,
                   groups, join>>

NextCsv == \E g \in DataGroups : HandleUploadProcess(g)

SpecCsv == InitCsv /\ [][NextCsv]_vars

\* a numeric value: text that reads as an integer
IsNumeric(text) == text \in {"3", "-2"}

\* a data line with a non-empty name and a numeric value in a date column
HasNameAndNumber(line) ==
    line.name # "" /\ \E j \in DOMAIN line.cells : IsNumeric(line.cells[j])

\* C13 (as claimed): the rows kept by the parser are the data lines with a
\* non-empty name and at least one numeric date value, in file order; when
\* there is none the upload fails with NoValidRows and writes nothing.
C13_KeptRows ==
    parsed # <<>> =>
        LET valid == SelectSeq(csv, HasNameAndNumber)
        IN  /\ Len(parsed.rows) = Len(valid)
            /\ \A k \in 1..Len(valid) : parsed.rows[k].name = valid[k].name
            /\ parsed.ok <=> valid # <<>>
            /\ valid = <<>> => participants = {} /\ leaderboard_entries = {}

\* C20 (as claimed): every daily_steps row a CSV upload writes and every
\* leaderboard entry after the upload has steps >= 0.
C20_StepsNotNegative ==
    parsed # <<>> =>
        /\ \A r \in daily_steps : r.steps >= 0
        /\ \A e \in leaderboard_entries : e.steps >= 0

(***************************************************************************)
(* handleUploadProcess on whole files: the header line decides the name    *)
(* column and the date columns.                                            *)
(***************************************************************************)
\* weekId left out of a call
NoWeek == 0

\* the headers that match /^\d{4}-\d{2}-\d{2}$/: a Monday, the Sunday of
\* its week and the Monday after
HeaderDates == {Ymd(2024, 1, 15), Ymd(2024, 1, 21), Ymd(2024, 1, 22)}

\* dateHeaders, in header order: up to two different date columns
DateHeaders ==
    {<<>>} \cup {<<d>> : d \in HeaderDates}
           \cup {s \in HeaderDates \X HeaderDates : s[1] # s[2]}

\* the text of a cell of a date column
FileCells == {"x", "3"}

\* the text of the cell at nameIndex
FileNames == {"", "Alice"}

\* the data lines of a file whose header has the date columns dates
FileLines(dates) == [name : FileNames, cells : [DOMAIN dates -> FileCells]]

\* The selected files. lines are the non-blank lines after the first;
\* header is FALSE for a file without a non-blank line; name: the header
\* has a column containing 'name'; dates: its date columns
Files ==
    {[header |-> FALSE, name |-> FALSE, dates |-> <<>>, lines |-> <<>>]}
        \cup UNION {UNION {[header : {TRUE}, name : BOOLEAN, dates : {dates},
                           lines : [1..n -> FileLines(dates)]] : n \in 0..MaxLines} :
                       dates \in DateHeaders}

\* the error handleUploadProcess throws before it saves, "" when none
ParseError(file) ==
    IF ~file.header \/ Len(file.lines) < 1
    THEN "CSV file must have at least a header row and one data row."
    ELSE IF ~file.name THEN "Name column not found."
    ELSE IF file.dates = <<>> THEN "No date columns found."
    ELSE IF ParseRows(file.lines) = <<>>
    THEN "No valid participant data found in CSV file."
    ELSE ""

InitFile ==
    /\ participants = {}
    /\ weekly_challenges = {}
    /\ daily_steps = {}
    /\ leaderboard_entries = {}
    /\ nextPid = 1
    /\ ops = 0
    /\ tzEast \in BOOLEAN
    /\ lastOp = Returned("none", TRUE, {}, 0, FALSE)
    /\ del = Idle
    /\ up = <<>>
    /\ anchor = 0
    /\ resolved = <<>>
    /\ csv \in Files
    /\ parsed = <<>>
    /\ view = <<>>
    /\ groups = Groups
    /\ join = <<>>

\* handleUploadProcess on the selected file: the thrown error is caught and
\* shown (alert), else the rows are saved; week is challenge.id
HandleUploadOfFile(g) ==
    /\ parsed = <<>>
    /\ IF ParseError(csv) # ""
       THEN /\ parsed' = [ok |-> FALSE, rows |-> <<>>, error |-> ParseError(csv),
                          week |-> NoWeek]
            /\ UNCHANGED <<tables, nextPid>>
       ELSE LET rows == ParseRows(csv.lines)
                r    == saveParticipantsToDatabase(DB, g, csv.dates, rows, tzEast)
            IN  /\ parsed' = [ok |-> TRUE, rows |-> rows, error |-> "",
                              week |-> UploadChallengeId(weekly_challenges, g, csv.dates)]
                /\ participants' = r.participants
                /\ weekly_challenges' = r.weekly_challenges
                /\ daily_steps' = r.daily_steps
                /\ leaderboard_entries' = r.leaderboard_entries
                /\ nextPid' = r.nextPid
    /\ UNCHANGED <<ops, tzEast, lastOp, del, up, anchor, resolved, csv, view,
                   groups, join>>

\* a manual entry into a week the upload has created
ManualAfterUpload ==
    /\ parsed # <<>>
    /\ \E g \in DataGroups, name \in FormNames, c \in weekly_challenges,
          steps \in FormSteps : ManualEntry(g, name, c.id, steps)

NextFile ==
    \/ \E g \in DataGroups : HandleUploadOfFile(g)
    \/ ManualAfterUpload

SpecFile == InitFile /\ [][NextFile]_vars

\* C21 (as claimed): after any CSV upload or manual entry the step_date of
\* every daily_steps row lies between week_start_date and week_end_date of
\* the weekly challenge the row references, so that a participant has at
\* most 7 daily records in a week.
C21_DailyDatesWithinWeek ==
    /\ \A r \in daily_steps :
          \E c \in weekly_challenges :
              /\ c.id = r.challenge_id
              /\ c.week_start_date <= r.step_date /\ r.step_date <= c.week_end_date
    /\ \A c \in weekly_challenges, p \in participants :
          Cardinality({r \in daily_steps :
              r.challenge_id = c.id /\ r.participant_id = p.id}) <= 7

\* the earliest of a file's date columns
EarliestDate(dates) ==
    CHOOSE d \in {dates[i] : i \in DOMAIN dates} :
        \A i \in DOMAIN dates : d <= dates[i]

\* C22 (as claimed): the weekly challenge an upload writes to is the one of
\* the week of the earliest date column, whatever the header order.
C22_WeekOfEarliestDate ==
    parsed # <<>> /\ parsed.ok =>
        \E c \in weekly_challenges :
            /\ c.id = parsed.week
            /\ c.week_number = IsoWeekNumber(EarliestDate(csv.dates))

\* a file in which some data line has a name and a numeric date value
HasValidRow(file) == \E k \in DOMAIN file.lines : HasNameAndNumber(file.lines[k])

\* C23 (as claimed): when parsing fails (fewer than 2 non-blank lines, no
\* name column, no date column or no valid row) the upload reports the
\* error and writes to no table.
C23_ParseFailureWritesNothing ==
    parsed # <<>> =>
        /\ ~parsed.ok => parsed.error # "" /\ TablesOf(DB) = TablesOf(EmptyDB)
        /\ (~csv.header \/ Len(csv.lines) < 1 \/ ~csv.name \/ csv.dates = <<>>
               \/ ~HasValidRow(csv)) => ~parsed.ok

(***************************************************************************)
(* The read paths of DataService, on the seeded tables.                    *)
(***************************************************************************)
\* groupId left out of a call
NoGroup == ""

\* the demo group of the migration
DemoGroup == "demo"

\* The rows the migration inserts: the demo group's participants (two of
\* the five), its weekly challenge and their leaderboard entries
Seed ==
    [participants |->
         {[id |-> 101, group_id |-> DemoGroup, user_id |-> "", name |-> "Sarah Johnson",
           email |-> "example.com"],
          [id |-> 102, group_id |-> DemoGroup, user_id |-> "", name |-> "Mike Chen",
           email |-> "example.com"]},
     weekly_challenges |->
         {[id |-> 110, group_id |-> DemoGroup, week_start_date |-> Ymd(2024, 1, 15),
           week_end_date |-> Ymd(2024, 1, 21), week_number |-> 3, year |-> 2024]},
     daily_steps |-> {},
     leaderboard_entries |->
         {[challenge_id |-> 110, participant_id |-> 101, steps |-> 15847,
           distance_mi |-> 0, points |-> 158, rank |-> 1],
          [challenge_id |-> 110, participant_id |-> 102, steps |-> 14523,
           distance_mi |-> 0, points |-> 145, rank |-> 2]},
     nextPid |-> 1]

\* the auth users that join groups
ReadUsers == {"u1", "u2"}

\* the CSV files uploaded before the reads
ReadFiles ==
    { [dates |-> <<Ymd(2024, 1, 15), Ymd(2024, 1, 16), Ymd(2024, 1, 18)>>,
       rows  |-> <<Row("Alice", <<3, 3, 3>>), Row("Bob", <<1, 1, 1>>)>>],
      [dates |-> <<Ymd(2024, 1, 15), Ymd(2024, 1, 16), Ymd(2024, 1, 17)>>,
       rows  |-> <<Row("Alice", <<2, 1, 3>>), Row("Bob", <<1, 2, 1>>)>>],
      [dates |-> <<Ymd(2024, 1, 22)>>,
       rows  |-> <<Row("Bob", <<5>>), Row("Alice", <<1>>)>>],
      [dates |-> <<Ymd(2024, 1, 15)>>,
       rows  |-> <<Row("Bob", <<2>>)>>] }

\* a variant of the filter that excludes nothing
ExcludesNothing(p) == TRUE

\* .not('email', 'like', '%@example.com'): the rows for which
\* NOT (email LIKE '%@example.com') is true; for a NULL email it is NULL
NotLikeExample(p) == p.email # "" /\ p.email # "example.com"

\* participant:participants!inner(...) with the filters on participant.email
\* and, when groupId is given, participant.group_id
JoinedParticipants(g) ==
    {p \in participants : NotLikeExample(p) /\ (g # NoGroup => p.group_id = g)}

\* a variant that keeps the points of one entry instead of adding them up
SumPointsOfOne(S) == IF S = {} THEN 0 ELSE (CHOOSE x \in S : TRUE).points

RECURSIVE SumPoints(_)
\* existing.totalPoints += points
SumPoints(S) ==
    IF S = {} THEN 0
    ELSE LET r == CHOOSE x \in S : TRUE IN r.points + SumPoints(S \ {r})

\* getOverallLeaderboard: the rows the query returns
OverallData(g) ==
    {e \in leaderboard_entries :
        \E p \in JoinedParticipants(g) : p.id = e.participant_id}

\* getOverallLeaderboard: the values of participantStats
ParticipantStats(g) ==
    {[participant_id |-> p.id, name |-> p.name, email |-> p.email,
      totalPoints |-> SumPoints({e \in OverallData(g) : e.participant_id = p.id}),
      totalSteps  |-> SumSteps({e \in OverallData(g) : e.participant_id = p.id}),
      weekCount   |-> Cardinality({e \in OverallData(g) : e.participant_id = p.id})] :
        p \in {q \in JoinedParticipants(g) :
                  \E e \in OverallData(g) : e.participant_id = q.id}}

\* a variant sorting by ascending total points
OrdersByTotalPointsAscending(S) ==
    {s \in [1..Cardinality(S) -> S] :
        /\ \A i, j \in DOMAIN s : i # j => s[i] # s[j]
        /\ \A i, j \in DOMAIN s : i < j => s[i].totalPoints <= s[j].totalPoints}

\* .sort((a, b) => b.totalPoints - a.totalPoints) on the values of the Map,
\* which come in the order the query returned the rows (no order is asked
\* for): rows of equal totals come in any order
OrdersByTotalPoints(S) ==
    {s \in [1..Cardinality(S) -> S] :
        /\ \A i, j \in DOMAIN s : i # j => s[i] # s[j]
        /\ \A i, j \in DOMAIN s : i < j => s[i].totalPoints >= s[j].totalPoints}

\* .map((entry, index) => ({ ...entry, rank: index + 1 }))
WithRank(ord) ==
    [i \in DOMAIN ord |->
        [participant_id |-> ord[i].participant_id, name |-> ord[i].name,
         email |-> ord[i].email, totalPoints |-> ord[i].totalPoints,
         totalSteps |-> ord[i].totalSteps, weekCount |-> ord[i].weekCount,
         rank |-> i]]

\* the possible results of getOverallLeaderboard(groupId)
getOverallLeaderboard(g) == {WithRank(ord) : ord \in OrdersByTotalPoints(ParticipantStats(g))}

InitRead ==
    /\ participants = Seed.participants
    /\ weekly_challenges = Seed.weekly_challenges
    /\ daily_steps = Seed.daily_steps
    /\ leaderboard_entries = Seed.leaderboard_entries
    /\ nextPid = Seed.nextPid
    /\ ops = 0
    /\ tzEast = FALSE
    /\ lastOp = Returned("none", TRUE, {}, 0, FALSE)
    /\ del = Idle
    /\ up = <<>>
    /\ anchor = 0
    /\ resolved = <<>>
    /\ csv = <<>>
    /\ parsed = <<>>
    /\ view = <<>>
    /\ groups = Groups
    /\ join = <<>>

\* a call of getOverallLeaderboard(groupId)
ReadOverall(g) ==
    /\ \E rows \in getOverallLeaderboard(g) :
         view' = [op |-> "overall", g |-> g, w |-> 0, rows |-> rows]
    /\ UNCHANGED <<tables, nextPid, ops, tzEast, lastOp, del, up, anchor, resolved,
                   csv, parsed, groups, join>>

\* the result of a call that returns null
Null == "null"

\* a row of leaderboard_entries with its embedded participant
WithParticipant(e) ==
    [challenge_id |-> e.challenge_id, participant_id |-> e.participant_id,
     steps |-> e.steps, points |-> e.points, rank |-> e.rank,
     participant |-> CHOOSE p \in participants : p.id = e.participant_id]

RECURSIVE OrdersByRank(_)
\* .order('rank', { ascending: true }): rows of equal rank in any order
OrdersByRank(S) ==
    IF S = {} THEN {<<>>}
    ELSE UNION {{<<e>> \o t : t \in OrdersByRank(S \ {e})} :
                   e \in {x \in S : \A y \in S : x.rank <= y.rank}}

\* the possible results of getRealLeaderboardData(groupId, weekId)
getRealLeaderboardData(g, w) ==
    OrdersByRank({WithParticipant(e) :
        e \in {x \in leaderboard_entries :
                  /\ \E p \in JoinedParticipants(g) : p.id = x.participant_id
                  /\ w # NoWeek => x.challenge_id = w}})

\* getGroupParticipants(groupId): the participants of the group that pass
\* the filter, each with the number of its entries (the rows come in no
\* particular order)
getGroupParticipants(g) ==
    {[id |-> p.id, group_id |-> p.group_id, user_id |-> p.user_id, name |-> p.name,
      email |-> p.email,
      entry_count |-> Cardinality({e \in leaderboard_entries : e.participant_id = p.id})] :
        p \in {q \in participants : q.group_id = g /\ NotLikeExample(q)}}

\* a row of daily_steps with its embedded participant and challenge
WithParticipantAndChallenge(r) ==
    [step_date |-> r.step_date, steps |-> r.steps,
     challenge_id |-> r.challenge_id, participant_id |-> r.participant_id,
     participant |-> CHOOSE p \in participants : p.id = r.participant_id]

RECURSIVE OrdersByStepDate(_)
\* .order('step_date', { ascending: true }): rows of one date in any order
OrdersByStepDate(S) ==
    IF S = {} THEN {<<>>}
    ELSE UNION {{<<r>> \o t : t \in OrdersByStepDate(S \ {r})} :
                   r \in {x \in S : \A y \in S : x.step_date <= y.step_date}}

\* the possible values of dailyData in getWeeklyAnalytics(groupId, weekId)
WeeklyDailyData(g, w) ==
    OrdersByStepDate({WithParticipantAndChallenge(r) :
        r \in {x \in daily_steps :
                  /\ x.challenge_id = w
                  /\ \E p \in JoinedParticipants(g) : p.id = x.participant_id}})

\* the possible values of dailyData in getOverallAnalytics(groupId); the
\* challenge is embedded with !inner
OverallDailyData(g) ==
    OrdersByStepDate({WithParticipantAndChallenge(r) :
        r \in {x \in daily_steps :
                  /\ \E c \in weekly_challenges : c.id = x.challenge_id
                  /\ \E p \in JoinedParticipants(g) : p.id = x.participant_id}})

RECURSIVE NamesOf(_)
\* the keys of participantData, in the order the Map received them
NamesOf(data) ==
    IF data = <<>> THEN <<>>
    ELSE LET rest == NamesOf(SubSeq(data, 1, Len(data) - 1))
             name == data[Len(data)].participant.name
         IN  IF \E i \in DOMAIN rest : rest[i] = name THEN rest ELSE Append(rest, name)

\* the value participantData holds for a name
ParticipantData(data, name) ==
    LET mine == SelectSeq(data, LAMBDA r : r.participant.name = name)
    IN  [name       |-> name,
         dailySteps |-> [i \in DOMAIN mine |->
                            [date |-> mine[i].step_date, steps |-> mine[i].steps]],
         totalSteps |-> SumSeq([i \in DOMAIN mine |-> mine[i].steps]),
         activeDays |-> Len(mine)]

\* Array.from(participantData.values())
ParticipantsOf(data) ==
    LET names == NamesOf(data)
    IN  [i \in DOMAIN names |-> ParticipantData(data, names[i])]

\* the variance Infinity of the initial mostConsistent, as a fraction
Infinity == [num |-> 1, den |-> 0]

\* the population variance of a participant's daily steps, as the exact
\* fraction (n * sum of squares - total^2) / n^2
Variance(p) ==
    LET n == Len(p.dailySteps)
    IN  [num |-> n * SumSeq([i \in DOMAIN p.dailySteps |->
                                p.dailySteps[i].steps * p.dailySteps[i].steps])
                 - p.totalSteps * p.totalSteps,
         den |-> n * n]

\* variance < mostConsistent.variance
VarianceLess(a, b) == a.num * b.den < b.num * a.den

RECURSIVE MostConsistent(_, _, _)
\* participants.forEach(p => { if (p.dailySteps.length >= 3) { ... } })
MostConsistent(ps, k, best) ==
    IF k > Len(ps) THEN best
    ELSE MostConsistent(ps, k + 1,
             IF Len(ps[k].dailySteps) >= 3 /\ VarianceLess(Variance(ps[k]), best.variance)
             THEN [name |-> ps[k].name, variance |-> Variance(ps[k])]
             ELSE best)

RECURSIVE SortedDates(_)
\* [...new Set(dailyData.map(entry => entry.step_date))].sort()
SortedDates(S) ==
    IF S = {} THEN <<>>
    ELSE LET d == CHOOSE x \in S : \A y \in S : x <= y
         IN  <<d>> \o SortedDates(S \ {d})

\* allDates
AllDates(data) == SortedDates({data[i].step_date : i \in DOMAIN data})

RECURSIVE DayWinner(_, _, _)
\* dayEntries.reduce((best, current) => current.steps > best.steps ? current : best)
DayWinner(es, k, best) ==
    IF k > Len(es) THEN best
    ELSE DayWinner(es, k + 1, IF es[k].steps > best.steps THEN es[k] ELSE best)

\* dailyWins: date -> winner name
DailyWins(data) ==
    [d \in {data[i].step_date : i \in DOMAIN data} |->
        LET dayEntries == SelectSeq(data, LAMBDA r : r.step_date = d)
        IN  DayWinner(dayEntries, 2, dayEntries[1]).participant.name]

\* the number of dates a name has won
WinCount(data, name) ==
    Cardinality({d \in DOMAIN DailyWins(data) : DailyWins(data)[d] = name})

RECURSIVE MaxWinStreak(_, _, _, _, _)
\* allDates.forEach(date => { if (dailyWins.get(date) === name) { ... } })
MaxWinStreak(wins, dates, name, k, st) ==
    IF k > Len(dates) THEN st.maxWinStreak
    ELSE MaxWinStreak(wins, dates, name, k + 1,
             IF wins[dates[k]] = name
             THEN [currentWinStreak |-> st.currentWinStreak + 1,
                   maxWinStreak |-> IF st.currentWinStreak + 1 > st.maxWinStreak
                                    THEN st.currentWinStreak + 1 ELSE st.maxWinStreak]
             ELSE [currentWinStreak |-> 0, maxWinStreak |-> st.maxWinStreak])

RECURSIVE Best(_, _, _)
\* .reduce((best, p) => p.n > best.n ? p : best, initial) over rows
\* [name, n]
Best(rows, k, best) ==
    IF k > Len(rows) THEN best
    ELSE Best(rows, k + 1, IF rows[k].n > best.n THEN rows[k] ELSE best)

\* getWeeklyAnalytics on a value of dailyData
WeeklyAnalyticsOf(data) ==
    LET ps    == ParticipantsOf(data)
        mc    == MostConsistent(ps, 1, [name |-> "", variance |-> Infinity])
        champ == Best([i \in DOMAIN ps |->
                          [name |-> ps[i].name, n |-> WinCount(data, ps[i].name)]],
                      1, [name |-> "N/A", n |-> 0])
    IN  [mostConsistent          |-> IF mc.name = "" THEN "N/A" ELSE mc.name,
         weeklyDailyWinsChampion |-> champ.name,
         weeklyDailyWinsCount    |-> champ.n,
         totalParticipants       |-> Len(ps),
         totalActiveDays         |-> Len(data)]

\* getOverallAnalytics on a value of dailyData
OverallAnalyticsOf(data) ==
    LET ps     == ParticipantsOf(data)
        wins   == DailyWins(data)
        most   == Best([i \in DOMAIN ps |->
                           [name |-> ps[i].name, n |-> WinCount(data, ps[i].name)]],
                       1, [name |-> "", n |-> 0])
        streak == Best([i \in DOMAIN ps |->
                           [name |-> ps[i].name,
                            n |-> MaxWinStreak(wins, AllDates(data), ps[i].name, 1,
                                      [currentWinStreak |-> 0, maxWinStreak |-> 0])]],
                       1, [name |-> "", n |-> 0])
    IN  [streakMaster         |-> IF most.name = "" THEN "N/A" ELSE most.name,
         longestStreak        |-> most.n,
         perfectWeeksChampion |-> IF streak.name = "" THEN "N/A" ELSE streak.name,
         perfectWeeksCount    |-> streak.n,
         totalParticipants    |-> Len(ps),
         totalActiveDays      |-> Len(data)]

\* a call of getRealLeaderboardData(groupId, weekId)
ReadLeaderboard(g, w) ==
    /\ \E rows \in getRealLeaderboardData(g, w) :
         view' = [op |-> "leaderboard", g |-> g, w |-> w, rows |-> rows]
    /\ UNCHANGED <<tables, nextPid, ops, tzEast, lastOp, del, up, anchor, resolved,
                   csv, parsed, groups, join>>

\* a call of getGroupParticipants(groupId)
ReadGroupParticipants(g) ==
    /\ view' = [op |-> "participants", g |-> g, w |-> NoWeek,
                rows |-> getGroupParticipants(g)]
    /\ UNCHANGED <<tables, nextPid, ops, tzEast, lastOp, del, up, anchor, resolved,
                   csv, parsed, groups, join>>

\* a call of getWeeklyAnalytics(groupId, weekId)
ReadWeeklyAnalytics(g, w) ==
    /\ IF g = NoGroup \/ w = NoWeek
       THEN view' = [op |-> "weekly", g |-> g, w |-> w, data |-> <<>>, rows |-> Null]
       ELSE \E data \in WeeklyDailyData(g, w) :
              view' = [op |-> "weekly", g |-> g, w |-> w, data |-> data,
                       rows |-> WeeklyAnalyticsOf(data)]
    /\ UNCHANGED <<tables, nextPid, ops, tzEast, lastOp, del, up, anchor, resolved,
                   csv, parsed, groups, join>>

\* a call of getOverallAnalytics(groupId)
ReadOverallAnalytics(g) ==
    /\ IF g = NoGroup
       THEN view' = [op |-> "analytics", g |-> g, w |-> NoWeek, data |-> <<>>,
                     rows |-> Null]
       ELSE \E data \in OverallDailyData(g) :
              view' = [op |-> "analytics", g |-> g, w |-> NoWeek, data |-> data,
                       rows |-> OverallAnalyticsOf(data)]
    /\ UNCHANGED <<tables, nextPid, ops, tzEast, lastOp, del, up, anchor, resolved,
                   csv, parsed, groups, join>>

\* the writes that precede a read
WriteBeforeRead ==
    /\ view = <<>>
    /\ ops < MaxWrites
    /\ \/ \E g \in DataGroups, f \in ReadFiles : Upload(g, f.dates, f.rows)
       \/ \E g \in DataGroups, name \in FormNames, c \in weekly_challenges,
             steps \in FormSteps : ManualEntry(g, name, c.id, steps)
       \/ \E u \in ReadUsers, g \in DataGroups : JoinGroup(u, g)

\* the groupId and weekId arguments of the reads
ReadGroups == DataGroups \cup {NoGroup, DemoGroup}
ReadWeeks == {c.id : c \in weekly_challenges} \cup {NoWeek}

\* the reads of one page load, on the tables the writes have left
ReadAfterWrites ==
    /\ view = <<>>
    /\ \/ \E g \in Groups \cup {NoGroup, DemoGroup} : ReadOverall(g)
       \/ \E g \in ReadGroups, w \in ReadWeeks : ReadLeaderboard(g, w)
       \/ \E g \in ReadGroups \ {NoGroup} : ReadGroupParticipants(g)
       \/ \E g \in ReadGroups, w \in ReadWeeks : ReadWeeklyAnalytics(g, w)
       \/ \E g \in ReadGroups : ReadOverallAnalytics(g)

NextRead ==
    \/ WriteBeforeRead
    \/ ReadAfterWrites

SpecRead == InitRead /\ [][NextRead]_vars

\* the participants of group g (of any group when g is left out) whose email
\* does not end in @example.com and that have a leaderboard entry
RealWithEntries(g) ==
    {p \in participants :
        /\ p.email # "example.com"
        /\ g # NoGroup => p.group_id = g
        /\ \E e \in leaderboard_entries : e.participant_id = p.id}

RECURSIVE PointsOver(_)
\* the sum of the points of a set of leaderboard entries
PointsOver(S) ==
    IF S = {} THEN 0
    ELSE LET r == CHOOSE x \in S : TRUE IN r.points + PointsOver(S \ {r})

\* C14: getOverallLeaderboard(g) returns exactly one row per
\* non-demo participant of group g that has a leaderboard entry, with
\* totalSteps and totalPoints the sums over the participant's entries and
\* weekCount their number.
C14_OverallRows ==
    view # <<>> /\ view.op = "overall" =>
        /\ \A i \in DOMAIN view.rows :
              \E p \in RealWithEntries(view.g) : p.id = view.rows[i].participant_id
        /\ \A p \in RealWithEntries(view.g) :
              LET mine == {e \in leaderboard_entries : e.participant_id = p.id}
                  rows == {i \in DOMAIN view.rows : view.rows[i].participant_id = p.id}
              IN  /\ Cardinality(rows) = 1
                  /\ \A i \in rows :
                         /\ view.rows[i].totalSteps = SumSteps(mine)
                         /\ view.rows[i].totalPoints = PointsOver(mine)
                         /\ view.rows[i].weekCount = Cardinality(mine)

\* C14 witness: the overall leaderboard of a group holds a participant with
\* entries in two weeks and leaves out a participant with an entry
C14_Witness ==
    /\ view # <<>> /\ view.op = "overall"
    /\ \E i \in DOMAIN view.rows :
          view.rows[i].weekCount = 2 /\ view.rows[i].totalPoints > 2
    /\ \E e \in leaderboard_entries :
          \A i \in DOMAIN view.rows : view.rows[i].participant_id # e.participant_id

\* C15: the M rows of getOverallLeaderboard carry the ranks 1..M, each once,
\* and a row of higher rank number never has more totalPoints.
C15_OverallRanks ==
    view # <<>> /\ view.op = "overall" =>
        /\ \A k \in 1..Len(view.rows) :
              Cardinality({i \in DOMAIN view.rows : view.rows[i].rank = k}) = 1
        /\ \A i, j \in DOMAIN view.rows :
              view.rows[i].rank < view.rows[j].rank =>
                  view.rows[i].totalPoints >= view.rows[j].totalPoints

\* C15 witness: an overall leaderboard whose rows differ in total points,
\* one of them summed over two weeks
C15_Witness ==
    /\ view # <<>> /\ view.op = "overall"
    /\ \E i, j \in DOMAIN view.rows :
          /\ view.rows[i].totalPoints # view.rows[j].totalPoints
          /\ view.rows[i].weekCount = 2

\* the ids of the participants whose data the result of a read holds
Included ==
    CASE view.op = "overall"      -> {view.rows[i].participant_id : i \in DOMAIN view.rows}
      [] view.op = "leaderboard"  -> {view.rows[i].participant.id : i \in DOMAIN view.rows}
      [] view.op = "participants" -> {r.id : r \in view.rows}
      [] OTHER                    -> {view.data[i].participant.id : i \in DOMAIN view.data}

\* the ids of the participants that have data matching the arguments of the
\* read, whatever their email
Eligible ==
    {p.id : p \in {q \in participants :
        /\ view.g # NoGroup => q.group_id = view.g
        /\ CASE view.op = "overall" ->
                   \E e \in leaderboard_entries : e.participant_id = q.id
             [] view.op = "leaderboard" ->
                   \E e \in leaderboard_entries :
                       /\ e.participant_id = q.id
                       /\ view.w # NoWeek => e.challenge_id = view.w
             [] view.op = "participants" -> TRUE
             [] view.op = "weekly" ->
                   /\ view.g # NoGroup /\ view.w # NoWeek
                   /\ \E r \in daily_steps :
                         r.participant_id = q.id /\ r.challenge_id = view.w
             [] OTHER ->
                   /\ view.g # NoGroup
                   /\ \E r \in daily_steps : r.participant_id = q.id}}

\* C16: no read path includes data of a participant whose email ends in
\* @example.com, and none leaves out a participant with data matching the
\* call because its email ends in @generated.com or @uploaded.com.
C16_DemoExcludedSyntheticKept ==
    view # <<>> =>
        \A p \in participants :
            /\ p.id \in Included => p.email # "example.com"
            /\ p.email \in {"generated.com", "uploaded.com"} /\ p.id \in Eligible
                   => p.id \in Included

\* C16 witness: a leaderboard read holds the entries of a participant of an
\* uploaded file and of one created by a manual entry, and leaves out those
\* of a participant at example.com
C16_Witness ==
    /\ view # <<>> /\ view.op = "leaderboard"
    /\ \E p, q, r \in participants :
          /\ p.email = "uploaded.com" /\ p.id \in Included
          /\ q.email = "generated.com" /\ q.id \in Included
          /\ r.email = "example.com" /\ r.id \in Eligible /\ r.id \notin Included

\* the lengths of the runs of calendar dates, each one day after the
\* previous, that one name has won
CalendarStreaks(wins) ==
    {k \in 0..Cardinality(DOMAIN wins) :
        k = 0 \/ \E d \in DOMAIN wins :
                    \A i \in 0..(k - 1) :
                        (d + i) \in DOMAIN wins /\ wins[d + i] = wins[d]}

\* the longest of them
LongestCalendarStreak(wins) ==
    CHOOSE k \in CalendarStreaks(wins) : \A j \in CalendarStreaks(wins) : j <= k

\* C18 (as claimed): getOverallAnalytics reports as longest win streak the
\* maximum number of consecutive calendar dates won by the same participant,
\* the winner of a date having the highest steps of that date; wins
\* separated by a date without records are not one streak.
C18_WinStreakOverCalendarDates ==
    view # <<>> /\ view.op = "analytics" /\ view.g # NoGroup =>
        LET wins == DailyWins(view.data)
        IN  /\ \A i \in DOMAIN view.data :
                  \E j \in DOMAIN view.data :
                      /\ view.data[j].step_date = view.data[i].step_date
                      /\ view.data[j].participant.name = wins[view.data[i].step_date]
                      /\ view.data[j].steps >= view.data[i].steps
            /\ view.rows.perfectWeeksCount = LongestCalendarStreak(wins)

\* the daily steps of participant id in the rows read, as
\* [n, total, squares]
DaysOf(data, id) ==
    LET mine == SelectSeq(data, LAMBDA r : r.participant.id = id)
    IN  [n       |-> Len(mine),
         total   |-> SumSeq([i \in DOMAIN mine |-> mine[i].steps]),
         squares |-> SumSeq([i \in DOMAIN mine |-> mine[i].steps * mine[i].steps])]

\* population variance a <= population variance b, both as DaysOf gives them
VarianceAtMost(a, b) ==
    (a.n * a.squares - a.total * a.total) * (b.n * b.n)
        <= (b.n * b.squares - b.total * b.total) * (a.n * a.n)

\* C19 (as claimed): getWeeklyAnalytics reports as most consistent the
\* participant of lowest population variance of daily steps among those with
\* at least 3 recorded days in the week, and "N/A" when there is none and
\* when several share the lowest variance.
C19_MostConsistent ==
    view # <<>> /\ view.op = "weekly" /\ view.g # NoGroup /\ view.w # NoWeek =>
        LET ids    == {view.data[i].participant.id : i \in DOMAIN view.data}
            enough == {id \in ids : DaysOf(view.data, id).n >= 3}
            lowest == {id \in enough :
                          \A other \in enough :
                              VarianceAtMost(DaysOf(view.data, id), DaysOf(view.data, other))}
        IN  IF Cardinality(lowest) = 1
            THEN \E p \in participants :
                     p.id \in lowest /\ view.rows.mostConsistent = p.name
            ELSE view.rows.mostConsistent = "N/A"

(***************************************************************************)
(* GroupService.createGroup and joinGroup of several sessions, one         *)
(* persistence call at a time.                                             *)
(***************************************************************************)
\* the browser sessions calling GroupService
JoinSessions == {1, 2, 3}

\* supabase.auth.getUser() of a session: sessions 1 and 2 are two tabs of
\* one user
SessionUser(s) == IF s = 3 THEN "u2" ELSE "u1"

\* the ids gen_random_uuid() gives to new groups
NewGroupIds == {"g2", "g3"}

\* the groupId arguments of joinGroup
JoinGroupIds == DataGroups \cup NewGroupIds

\* a session outside a call; last is the outcome of its last call
NoCall(last) == [pc |-> "idle", op |-> "none", g |-> NoGroup, member |-> FALSE,
                 last |-> last]

\* the outcome of a call: was the user a member when it began, did it
\* return without throwing, did it insert a participant row
Outcome(op, g, member, ok, added) ==
    [op |-> op, g |-> g, member |-> member, ok |-> ok, added |-> added]

InitJoin ==
    /\ participants = {}
    /\ weekly_challenges = {}
    /\ daily_steps = {}
    /\ leaderboard_entries = {}
    /\ nextPid = 1
    /\ ops = 0
    /\ tzEast = FALSE
    /\ lastOp = Returned("none", TRUE, {}, 0, FALSE)
    /\ del = Idle
    /\ up = <<>>
    /\ anchor = 0
    /\ resolved = <<>>
    /\ csv = <<>>
    /\ parsed = <<>>
    /\ view = <<>>
    /\ groups = DataGroups
    /\ join = [s \in JoinSessions |-> NoCall(Outcome("none", NoGroup, FALSE, TRUE, FALSE))]

\* is user u a participant of group g
IsMember(g, u) == \E p \in participants : p.group_id = g /\ p.user_id = u

\* joinGroup(groupId) up to getGroupById: throws when the group is not found
JoinGetGroup(s, g) ==
    /\ join[s].pc = "idle"
    /\ ops < MaxOps
    /\ ops' = ops + 1
    /\ join' = [join EXCEPT ![s] =
           IF g \in groups
           THEN [pc |-> "select", op |-> "join", g |-> g,
                 member |-> IsMember(g, SessionUser(s)), last |-> join[s].last]
           ELSE NoCall(Outcome("join", g, FALSE, FALSE, FALSE))]
    /\ UNCHANGED <<tables, nextPid, tzEast, lastOp, del, up, anchor, resolved,
                   csv, parsed, view, groups>>

\* joinGroup: the select of the existing participant with .single(); the
\* error of the select is not read, so a select that fails counts as none
JoinSelectExisting(s) ==
    /\ join[s].pc = "select"
    /\ \E failed \in BOOLEAN :
         LET existingParticipant ==
                 IF failed THEN {}
                 ELSE Single({p \in participants :
                         p.group_id = join[s].g /\ p.user_id = SessionUser(s)})
         IN  join' = [join EXCEPT ![s] =
                 IF existingParticipant # {}
                 THEN NoCall(Outcome("join", join[s].g, join[s].member, FALSE, FALSE))
                 ELSE [join[s] EXCEPT !.pc = "insert"]]
    /\ UNCHANGED <<tables, nextPid, ops, tzEast, lastOp, del, up, anchor, resolved,
                   csv, parsed, view, groups>>

\* createGroup up to the insert of the group
CreateGroupInsert(s) ==
    /\ join[s].pc = "idle"
    /\ ops < MaxOps
    /\ ops' = ops + 1
    /\ \E failed \in BOOLEAN :
         IF failed \/ NewGroupIds \subseteq groups
         THEN /\ join' = [join EXCEPT ![s] =
                     NoCall(Outcome("create", NoGroup, FALSE, FALSE, FALSE))]
              /\ UNCHANGED groups
         ELSE LET id == CHOOSE g \in NewGroupIds : g \notin groups
              IN  /\ groups' = groups \cup {id}
                  /\ join' = [join EXCEPT ![s] =
                         [pc |-> "insert", op |-> "create", g |-> id,
                          member |-> FALSE, last |-> join[s].last]]
    /\ UNCHANGED <<tables, nextPid, tzEast, lastOp, del, up, anchor, resolved,
                   csv, parsed, view>>

\* a variant without the constraint
NoUniqueConstraint(g, u) == FALSE

\* UNIQUE(group_id, user_id): does a row (g, u) violate it
UniqueViolation(g, u) == \E p \in participants : p.group_id = g /\ p.user_id = u

\* addUserToGroup: the insert into participants; throws on its error
AddUserToGroup(s) ==
    /\ join[s].pc = "insert"
    /\ IF UniqueViolation(join[s].g, SessionUser(s))
       THEN /\ join' = [join EXCEPT ![s] =
                   NoCall(Outcome(join[s].op, join[s].g, join[s].member, FALSE, FALSE))]
            /\ UNCHANGED <<participants, nextPid>>
       ELSE /\ nextPid <= MaxParticipants
            /\ participants' = participants \cup
                   {[id |-> nextPid, group_id |-> join[s].g, user_id |-> SessionUser(s),
                     name |-> UserName(SessionUser(s)),
                     email |-> UserEmail(SessionUser(s))]}
            /\ nextPid' = nextPid + 1
            /\ join' = [join EXCEPT ![s] =
                   NoCall(Outcome(join[s].op, join[s].g, join[s].member, TRUE, TRUE))]
    /\ UNCHANGED <<weekly_challenges, daily_steps, leaderboard_entries, ops, tzEast,
                   lastOp, del, up, anchor, resolved, csv, parsed, view, groups>>

NextJoin ==
    \/ \E s \in JoinSessions, g \in JoinGroupIds : JoinGetGroup(s, g)
    \/ \E s \in JoinSessions : JoinSelectExisting(s)
    \/ \E s \in JoinSessions : CreateGroupInsert(s)
    \/ \E s \in JoinSessions : AddUserToGroup(s)

SpecJoin == InitJoin /\ [][NextJoin]_vars

\* C17: there is at most one participant row per (group_id, user_id) with
\* user_id set, and a joinGroup called by a user who was a member of the
\* group throws and inserts no row.
C17_OneRowPerUserAndGroup ==
    /\ \A p, q \in participants :
          p.user_id # "" /\ p.group_id = q.group_id /\ p.user_id = q.user_id => p = q
    /\ \A s \in JoinSessions :
          join[s].last.op = "join" /\ join[s].last.member =>
              ~join[s].last.ok /\ ~join[s].last.added

\* C17 witness: two tabs of one user have joined the same group at once
\* and one insert was refused by the constraint; the tab that became a
\* member has called joinGroup again, which has thrown
C17_Witness ==
    \E s, t \in JoinSessions :
        /\ s # t /\ SessionUser(s) = SessionUser(t)
        /\ join[s].pc = "idle" /\ join[t].pc = "idle"
        /\ join[s].last = Outcome("join", "g1", TRUE, FALSE, FALSE)
        /\ join[t].last = Outcome("join", "g1", FALSE, FALSE, FALSE)
        /\ Cardinality({p \in participants : p.group_id = "g1"}) = 1

(***************************************************************************)
(* Two uploads for one week of one group, one persistence call at a time   *)
(* (spec section 5: no locking, the calls of two uploads interleave).      *)
(***************************************************************************)
Tabs == {1, 2}

\* the files that carry the single date column 2024-01-15
ConcFiles == {f \in CsvFiles : f.dates = <<Ymd(2024, 1, 15)>> /\ Len(f.rows) <= 2}

\* an upload about to issue its first call: f the file, cid challenge.id,
\* i the index into sortedParticipants, k the index into dailyData, pid
\* participantData.id
Started(g, f) ==
    [pc |-> "selectChallenge", g |-> g, f |-> f, cid |-> 0, i |-> 1, k |-> 1, pid |-> 0]

InitConc ==
    /\ participants = {}
    /\ weekly_challenges = {}
    /\ daily_steps = {}
    /\ leaderboard_entries = {}
    /\ nextPid = 1
    /\ ops = 0
    /\ tzEast = FALSE
    /\ lastOp = Returned("none", TRUE, {}, 0, FALSE)
    /\ del = Idle
    /\ up \in [Tabs -> {Started(g, f) : g \in DataGroups, f \in ConcFiles}]
    /\ anchor = 0
    /\ resolved = <<>>
    /\ csv = <<>>
    /\ parsed = <<>>
    /\ view = <<>>
    /\ groups = Groups
    /\ join = <<>>

\* sortedParticipants[i]
Participant(u) == SortedParticipants(u.f.rows)[u.i]

\* the end of one pass of for (const dailyData of participant.dailyData)
NextDaily(u) ==
    IF u.k < Len(u.f.dates) THEN [u EXCEPT !.k = u.k + 1, !.pc = "selectDaily"]
    ELSE [u EXCEPT !.pc = "selectEntry"]

\* the end of one pass of for (let i = 0; i < sortedParticipants.length; i++)
NextParticipant(u) ==
    IF u.i < Len(u.f.rows) THEN [u EXCEPT !.i = u.i + 1, !.k = 1, !.pc = "selectParticipant"]
    ELSE [u EXCEPT !.pc = "done"]

\* select weekly_challenges by (group_id, week_number, year) .single()
UpSelectChallenge(q) ==
    /\ up[q].pc = "selectChallenge"
    /\ LET existing == Single(SelectChallenge(weekly_challenges, up[q].g,
                                              ResolveWeek(up[q].f.dates[1])))
       IN  up' = IF existing = {} THEN [up EXCEPT ![q].pc = "insertChallenge"]
                 ELSE [up EXCEPT ![q].cid = (CHOOSE c \in existing : TRUE).id,
                                 ![q].pc = "selectParticipant"]
    /\ UNCHANGED <<tables, nextPid, ops, tzEast, lastOp, del, anchor, resolved,
                   csv, parsed, view, groups, join>>

\* insert into weekly_challenges; UNIQUE(group_id, week_number, year) rejects
\* a second row and the upload throws 'Failed to create weekly challenge'
UpInsertChallenge(q) ==
    /\ up[q].pc = "insertChallenge"
    /\ LET wk == ResolveWeek(up[q].f.dates[1])
           c  == NewChallenge(weekly_challenges, up[q].g, wk, tzEast)
       IN  IF SelectChallenge(weekly_challenges, up[q].g, wk) # {}
           THEN /\ up' = [up EXCEPT ![q].pc = "failed"]
                /\ UNCHANGED weekly_challenges
           ELSE /\ weekly_challenges' = weekly_challenges \cup {c}
                /\ up' = [up EXCEPT ![q].cid = c.id, ![q].pc = "selectParticipant"]
    /\ UNCHANGED <<participants, daily_steps, leaderboard_entries,
                   nextPid, ops, tzEast, lastOp, del, anchor, resolved, csv, parsed, view,
                   groups, join>>

\* select participants by (group_id, name) .single()
UpSelectParticipant(q) ==
    /\ up[q].pc = "selectParticipant"
    /\ LET found == Single(ParticipantsByName(participants, up[q].g,
                                              Participant(up[q]).name))
       IN  up' = IF found = {} THEN [up EXCEPT ![q].pc = "insertParticipant"]
                 ELSE [up EXCEPT ![q].pid = (CHOOSE p \in found : TRUE).id,
                                 ![q].pc = "selectDaily"]
    /\ UNCHANGED <<tables, nextPid, ops, tzEast, lastOp, del, anchor, resolved,
                   csv, parsed, view, groups, join>>

\* insert into participants (user_id null: no unique constraint applies)
UpInsertParticipant(q) ==
    /\ up[q].pc = "insertParticipant"
    /\ participants' = participants
           \cup {NewParticipant(nextPid, up[q].g, Participant(up[q]).name)}
    /\ nextPid' = nextPid + 1
    /\ up' = [up EXCEPT ![q].pid = nextPid, ![q].pc = "selectDaily"]
    /\ UNCHANGED <<weekly_challenges, daily_steps, leaderboard_entries,
                   ops, tzEast, lastOp, del, anchor, resolved, csv, parsed, view,
                   groups, join>>

\* the daily_steps rows of (challenge.id, participantData.id, dateStr)
DailyRows(u) ==
    {r \in daily_steps : /\ r.challenge_id = u.cid
                         /\ r.participant_id = u.pid
                         /\ r.step_date = u.f.dates[u.k]}

\* select daily_steps by (challenge_id, participant_id, step_date) .single()
UpSelectDaily(q) ==
    /\ up[q].pc = "selectDaily"
    /\ up' = IF Single(DailyRows(up[q])) = {} THEN [up EXCEPT ![q].pc = "insertDaily"]
             ELSE [up EXCEPT ![q].pc = "updateDaily"]
    /\ UNCHANGED <<tables, nextPid, ops, tzEast, lastOp, del, anchor, resolved,
                   csv, parsed, view, groups, join>>

\* update daily_steps .eq('id', existingDailyEntry.id)
UpUpdateDaily(q) ==
    /\ up[q].pc = "updateDaily"
    /\ daily_steps' = WriteDaily(daily_steps, up[q].cid, up[q].pid,
                                 up[q].f.dates[up[q].k], Participant(up[q]).steps[up[q].k])
    /\ up' = [up EXCEPT ![q] = NextDaily(up[q])]
    /\ UNCHANGED <<participants, weekly_challenges, leaderboard_entries,
                   nextPid, ops, tzEast, lastOp, del, anchor, resolved, csv, parsed, view,
                   groups, join>>

\* insert into daily_steps; a row of the same (challenge, participant, date)
\* makes the insert fail, the error is logged
UpInsertDaily(q) ==
    /\ up[q].pc = "insertDaily"
    /\ daily_steps' =
           IF DailyRows(up[q]) # {} THEN daily_steps
           ELSE daily_steps \cup {[challenge_id |-> up[q].cid, participant_id |-> up[q].pid,
                                   step_date |-> up[q].f.dates[up[q].k],
                                   steps |-> Participant(up[q]).steps[up[q].k]]}
    /\ up' = [up EXCEPT ![q] = NextDaily(up[q])]
    /\ UNCHANGED <<participants, weekly_challenges, leaderboard_entries,
                   nextPid, ops, tzEast, lastOp, del, anchor, resolved, csv, parsed, view,
                   groups, join>>

\* the leaderboard_entries rows of (challenge.id, participantData.id)
EntryRows(u) == {e \in leaderboard_entries : EntryKey(e) = <<u.cid, u.pid>>}

\* the row the upload writes for sortedParticipants[i]
UploadedEntry(u) ==
    [challenge_id |-> u.cid, participant_id |-> u.pid,
     steps |-> SumSeq(Participant(u).steps), distance_mi |-> 0,
     points |-> Len(u.f.rows) - (u.i - 1), rank |-> u.i]

\* select leaderboard_entries by (challenge_id, participant_id) .single()
UpSelectEntry(q) ==
    /\ up[q].pc = "selectEntry"
    /\ up' = IF Single(EntryRows(up[q])) = {} THEN [up EXCEPT ![q].pc = "insertEntry"]
             ELSE [up EXCEPT ![q].pc = "updateEntry"]
    /\ UNCHANGED <<tables, nextPid, ops, tzEast, lastOp, del, anchor, resolved,
                   csv, parsed, view, groups, join>>

\* update leaderboard_entries .eq('id', existingEntry.id)
UpUpdateEntry(q) ==
    /\ up[q].pc = "updateEntry"
    /\ leaderboard_entries' =
           (leaderboard_entries \ EntryRows(up[q])) \cup {UploadedEntry(up[q])}
    /\ up' = [up EXCEPT ![q] = NextParticipant(up[q])]
    /\ UNCHANGED <<participants, weekly_challenges, daily_steps,
                   nextPid, ops, tzEast, lastOp, del, anchor, resolved, csv, parsed, view,
                   groups, join>>

\* insert into leaderboard_entries; UNIQUE(challenge_id, participant_id)
\* rejects a second row, the error is logged
UpInsertEntry(q) ==
    /\ up[q].pc = "insertEntry"
    /\ leaderboard_entries' =
           IF EntryRows(up[q]) # {} THEN leaderboard_entries
           ELSE leaderboard_entries \cup {UploadedEntry(up[q])}
    /\ up' = [up EXCEPT ![q] = NextParticipant(up[q])]
    /\ UNCHANGED <<participants, weekly_challenges, daily_steps,
                   nextPid, ops, tzEast, lastOp, del, anchor, resolved, csv, parsed, view,
                   groups, join>>

NextConc ==
    \/ \E q \in Tabs : UpSelectChallenge(q)
    \/ \E q \in Tabs : UpInsertChallenge(q)
    \/ \E q \in Tabs : UpSelectParticipant(q)
    \/ \E q \in Tabs : UpInsertParticipant(q)
    \/ \E q \in Tabs : UpSelectDaily(q)
    \/ \E q \in Tabs : UpUpdateDaily(q)
    \/ \E q \in Tabs : UpInsertDaily(q)
    \/ \E q \in Tabs : UpSelectEntry(q)
    \/ \E q \in Tabs : UpUpdateEntry(q)
    \/ \E q \in Tabs : UpInsertEntry(q)

SpecConc == InitConc /\ [][NextConc]_vars

\* C8 (as claimed): once both interleaved uploads have finished there is at
\* most one weekly_challenges row per (group, week_number, year), one
\* participants row per (group, name), one daily_steps row per (challenge,
\* participant, date) and one leaderboard_entries row per (challenge,
\* participant).
C8_NoDuplicateRows ==
    (\A q \in Tabs : up[q].pc \in {"done", "failed"}) =>
        /\ \A c1, c2 \in weekly_challenges :
              (c1.group_id = c2.group_id /\ c1.week_number = c2.week_number
                  /\ c1.year = c2.year) => c1 = c2
        /\ \A p1, p2 \in participants :
              (p1.group_id = p2.group_id /\ p1.name = p2.name) => p1 = p2
        /\ \A r1, r2 \in daily_steps :
              (r1.challenge_id = r2.challenge_id /\ r1.participant_id = r2.participant_id
                  /\ r1.step_date = r2.step_date) => r1 = r2
        /\ \A e1, e2 \in leaderboard_entries : EntryKey(e1) = EntryKey(e2) => e1 = e2


(***************************************************************************)
(* The verifying selects of deleteParticipant and updateLeaderboardEntry.  *)
(***************************************************************************)
\* this step is a whole call of updateLeaderboardEntry
IsEditStep ==
    /\ del.pc = "idle"
    /\ del'.pc = "idle"
    /\ ops' = ops + 1
    /\ lastOp'.op = "edit"

\* this step is the start of a call of deleteParticipant: its verifying
\* select and, when that finds the participant, the select of its weeks
IsDeleteStart ==
    /\ del.pc = "idle"
    /\ ops' = ops + 1
    /\ \/ del'.pc = "delDaily"
       \/ del'.pc = "idle" /\ lastOp'.op = "delete"

\* the steps of the entries that do not belong to participant pid are the
\* same before and after this step
OthersStepsUnchanged(pid) ==
    \A e \in leaderboard_entries :
        e.participant_id # pid =>
            \E f \in leaderboard_entries' : EntryKey(f) = EntryKey(e) /\ f.steps = e.steps

C24_Step ==
    /\ IsEditStep =>
          /\ OthersStepsUnchanged(lastOp'.p)
          /\ ~lastOp'.ok => UNCHANGED <<tables, nextPid>>
          /\ lastOp'.ok =>
                \E e \in leaderboard_entries :
                    e.participant_id = lastOp'.p /\ e.challenge_id \in lastOp'.weeks
    /\ IsDeleteStart =>
          /\ UNCHANGED <<tables, nextPid>>
          /\ del'.pc = "delDaily" =>
                \E p \in participants : p.id = del'.p /\ p.group_id = del'.g
          /\ del'.pc = "idle" => ~lastOp'.ok

\* C24: deleteParticipant(p, g) goes on to its deletes only when p is a
\* participant of g, and otherwise throws with every table unchanged;
\* updateLeaderboardEntry(e, updates, p) changes the steps of no entry that
\* does not belong to p, and when it throws at the verifying select every
\* table is unchanged
C24_RefusedBeforeAnyWrite == [][C24_Step]_vars

\* C24 witness: an edit of another participant's entry was refused in a week
\* that holds entries of both participants
C24_Witness ==
    /\ lastOp.op = "edit"
    /\ ~lastOp.ok
    /\ \E a, b \in leaderboard_entries :
         /\ a.challenge_id = b.challenge_id
         /\ a.participant_id = lastOp.p
         /\ b.participant_id # lastOp.p


(***************************************************************************)
(* Entry edits after a recalculation that left some entries stale.         *)
(***************************************************************************)
\* the steps an entry is edited to
RecalcSteps == {0, 2}

\* updateLeaderboardEntry, recording in view the result of the operation
\* before it and the entries it found
EditRecorded(cid, owner, pid, steps) ==
    /\ ops < MaxOps
    /\ ops' = ops + 1
    /\ \E e \in leaderboard_entries : EntryKey(e) = <<cid, owner>>
    /\ view' = [last |-> lastOp, entries |-> leaderboard_entries]
    /\ IF owner # pid
       THEN /\ lastOp' = Returned("edit", FALSE, {}, pid, FALSE)
            /\ UNCHANGED leaderboard_entries
       ELSE LET old == CHOOSE e \in leaderboard_entries : EntryKey(e) = <<cid, owner>>
                E   == (leaderboard_entries \ {old}) \cup {[old EXCEPT !.steps = steps]}
            IN  \E ord \in OrdersBySteps(WeekEntries(E, cid)),
                   fail \in FailChoices(E, cid) :
                  /\ leaderboard_entries' = recalculatePointsForWeek(E, cid, ord, fail)
                  /\ lastOp' = Returned("edit", TRUE, {cid}, pid, fail # {})
    /\ UNCHANGED <<participants, weekly_challenges, daily_steps, nextPid, tzEast,
                   del, up, anchor, resolved, csv, parsed, groups, join>>

NextRecalc ==
    \/ \E g \in DataGroups, f \in CsvFiles : Upload(g, f.dates, f.rows)
    \/ \E e \in leaderboard_entries, p \in participants, steps \in RecalcSteps :
         EditRecorded(e.challenge_id, e.participant_id, p.id, steps)

SpecRecalc == Init /\ [][NextRecalc]_vars

\* among the entries W of one week each of 1..N is the points of exactly
\* one entry
PointsAreExactly(W) ==
    \A k \in 1..Cardinality(W) : Cardinality({e \in W : e.points = k}) = 1

\* the points of entry e are those of a position its steps allow: above
\* every entry of fewer steps, not above an entry of more steps
PointsFromSteps(W, e) ==
    /\ e.points > Cardinality({f \in W : f.steps < e.steps})
    /\ e.points <= Cardinality({f \in W : f.steps <= e.steps})

\* the last operation is an entry edit whose recalculation of week w had no
\* failing update, and the operation before it recalculated week w with a
\* failing update
RestoredAfterFailure(w) ==
    /\ view # <<>>
    /\ view.last.ok
    /\ view.last.failed
    /\ w \in view.last.weeks
    /\ lastOp.op = "edit"
    /\ lastOp.ok
    /\ ~lastOp.failed
    /\ w \in lastOp.weeks

\* C25: when a recalculation of week w had a failing per-entry update, the
\* next entry edit on week w whose recalculation has no failing update
\* leaves the points of the week's N entries exactly 1..N, each entry at a
\* position given by the steps alone.
C25_NextRecalculationRestores ==
    \A w \in {c.id : c \in weekly_challenges} :
        RestoredAfterFailure(w) =>
            /\ PointsAreExactly(WeekEntries(leaderboard_entries, w))
            /\ \A e \in WeekEntries(leaderboard_entries, w) :
                   PointsFromSteps(WeekEntries(leaderboard_entries, w), e)

\* C25 witness: the failing update had left two entries of the week with
\* the same points, and the next edit has restored 1..N
C25_Witness ==
    \E w \in {c.id : c \in weekly_challenges} :
        /\ RestoredAfterFailure(w)
        /\ ~PointsAreExactly(WeekEntries(view.entries, w))
        /\ \E a, b \in WeekEntries(view.entries, w) : a # b /\ a.points = b.points


(***************************************************************************)
(* Matching a named participant to the rows of the group.                  *)
(***************************************************************************)
\* this step is a whole CSV upload or manual entry
IsUploadOrManualStep ==
    /\ del.pc = "idle"
    /\ ops' = ops + 1
    /\ lastOp'.op \in {"upload", "manual"}

\* the participant rows this step inserts
InsertedParticipants == participants' \ participants

C26_Step ==
    IsUploadOrManualStep =>
        \A n \in InsertedParticipants :
            ~\E p \in participants :
                p.group_id = n.group_id /\ Lower(p.name) = Lower(n.name)

\* C26 (as claimed): a CSV upload or a manual entry inserts no participant
\* row whose name equals, up to letter case, the name of a participant the
\* group already has.
C26_ReusesUpToLetterCase == [][C26_Step]_vars

\* this step is a whole CSV upload
IsUploadStep ==
    /\ del.pc = "idle"
    /\ ops' = ops + 1
    /\ lastOp'.op = "upload"

C27_Step ==
    IsUploadStep =>
        \A n \in InsertedParticipants :
            ~\E p \in participants : p.group_id = n.group_id /\ p.name = n.name

\* C27 (as claimed): a CSV upload inserts a participant row only for a name
\* no participant of the group has, also when the group holds two or more
\* participants of that name.
C27_CreatesOnlyUnseenNames == [][C27_Step]_vars


(***************************************************************************)
(* What recalculatePointsForWeek leaves alone.                             *)
(***************************************************************************)
\* this step is one call of recalculatePointsForWeek, made by
\* deleteParticipant for one of the affected weeks
IsRecalcStep ==
    /\ del.pc = "recalc"
    /\ del'.pc = "recalc"
    /\ del'.todo # del.todo

\* the week the step recalculates
RecalcWeek == CHOOSE w \in del.todo : w \notin del'.todo

\* an entry without its rank and points
WithoutRankAndPoints(e) ==
    [challenge_id |-> e.challenge_id, participant_id |-> e.participant_id,
     steps |-> e.steps, distance_mi |-> e.distance_mi]

C28_Step ==
    IsRecalcStep =>
        /\ UNCHANGED <<participants, weekly_challenges, daily_steps, nextPid>>
        /\ {WithoutRankAndPoints(e) : e \in leaderboard_entries'}
               = {WithoutRankAndPoints(e) : e \in leaderboard_entries}
        /\ Cardinality(leaderboard_entries') = Cardinality(leaderboard_entries)
        /\ {e \in leaderboard_entries' : e.challenge_id # RecalcWeek}
               = {e \in leaderboard_entries : e.challenge_id # RecalcWeek}
        /\ WeekEntries(leaderboard_entries, RecalcWeek) = {} =>
               UNCHANGED leaderboard_entries

\* C28: a call of recalculatePointsForWeek(w) leaves the participants,
\* weekly_challenges and daily_steps rows, the entries of every other week
\* and the steps and distance of every entry unchanged, and changes nothing
\* at all when week w has no entry.
C28_RecalculationFrame == [][C28_Step]_vars

\* C28 witness: a delete has recalculated two weeks, one left without an
\* entry and one that still has entries
C28_Witness ==
    /\ del.pc = "recalc"
    /\ del.todo = {}
    /\ \E v, w \in del.weeks :
         /\ WeekEntries(leaderboard_entries, v) = {}
         /\ WeekEntries(leaderboard_entries, w) # {}


(***************************************************************************)
(* Two entry edits in one week, one persistence call at a time.            *)
(***************************************************************************)
\* no call of updateLeaderboardEntry made yet from this tab
NotEditing == [pc |-> "idle", cid |-> 0, pid |-> 0, steps |-> 0, ord |-> <<>>, i |-> 1]

InitEdits ==
    /\ participants = {}
    /\ weekly_challenges = {}
    /\ daily_steps = {}
    /\ leaderboard_entries = {}
    /\ nextPid = 1
    /\ ops = 0
    /\ tzEast = FALSE
    /\ lastOp = Returned("none", TRUE, {}, 0, FALSE)
    /\ del = Idle
    /\ up = [q \in Tabs |-> NotEditing]
    /\ anchor = 0
    /\ resolved = <<>>
    /\ csv = <<>>
    /\ parsed = <<>>
    /\ view = <<>>
    /\ groups = Groups
    /\ join = <<>>

\* the upload that fills the week before the edits
UploadBeforeEdits ==
    /\ ops = 0
    /\ \E g \in DataGroups, f \in ConcFiles \cup {f \in CsvFiles : Len(f.rows) = 3} :
         Upload(g, f.dates, f.rows)

\* the entry of week cid and participant pid
EntryOf(cid, pid) == {e \in leaderboard_entries : EntryKey(e) = <<cid, pid>>}

\* the verifying select .eq('id', entryId).eq('participant_id', participantId)
\* of a call for the participant's own entry; the other tab edits another
\* entry of the same week
EdVerify(q, cid, pid, steps) ==
    /\ up[q].pc = "idle"
    /\ EntryOf(cid, pid) # {}
    /\ \A r \in Tabs \ {q} :
           up[r].pc = "idle" \/ (up[r].cid = cid /\ up[r].pid # pid)
    /\ up' = [up EXCEPT ![q] = [NotEditing EXCEPT !.pc = "update", !.cid = cid,
                                                  !.pid = pid, !.steps = steps]]
    /\ UNCHANGED <<tables, nextPid, ops, tzEast, lastOp, del, anchor, resolved,
                   csv, parsed, view, groups, join>>

\* update(updates).eq('id', entryId)
EdUpdate(q) ==
    /\ up[q].pc = "update"
    /\ leaderboard_entries' =
           {IF EntryKey(e) = <<up[q].cid, up[q].pid>>
            THEN [e EXCEPT !.steps = up[q].steps] ELSE e : e \in leaderboard_entries}
    /\ up' = [up EXCEPT ![q].pc = "select"]
    /\ UNCHANGED <<participants, weekly_challenges, daily_steps,
                   nextPid, ops, tzEast, lastOp, del, anchor, resolved, csv, parsed, view,
                   groups, join>>

\* recalculatePointsForWeek: the select of the week's entries ordered by
\* steps; the rows fetched are kept in ord
EdSelect(q) ==
    /\ up[q].pc = "select"
    /\ \E ord \in OrdersBySteps(WeekEntries(leaderboard_entries, up[q].cid)) :
         up' = [up EXCEPT ![q].ord = ord, ![q].i = 1,
                          ![q].pc = IF Len(ord) = 0 THEN "done" ELSE "write"]
    /\ UNCHANGED <<tables, nextPid, ops, tzEast, lastOp, del, anchor, resolved,
                   csv, parsed, view, groups, join>>

\* recalculatePointsForWeek: update({ points, rank }).eq('id', update.id) for
\* the i-th fetched row; after the last one the call returns
EdWrite(q) ==
    /\ up[q].pc = "write"
    /\ LET n == Len(up[q].ord)
           k == EntryKey(up[q].ord[up[q].i])
       IN  /\ leaderboard_entries' =
                  {IF EntryKey(e) = k
                   THEN [e EXCEPT !.points = PointsAndRank(n, up[q].i).points,
                                  !.rank = PointsAndRank(n, up[q].i).rank]
                   ELSE e : e \in leaderboard_entries}
           /\ up' = [up EXCEPT ![q].i = up[q].i + 1,
                               ![q].pc = IF up[q].i = n THEN "done" ELSE "write"]
    /\ UNCHANGED <<participants, weekly_challenges, daily_steps,
                   nextPid, ops, tzEast, lastOp, del, anchor, resolved, csv, parsed, view,
                   groups, join>>

NextEdits ==
    \/ UploadBeforeEdits
    \/ \E q \in Tabs, e \in leaderboard_entries, steps \in RecalcSteps :
         EdVerify(q, e.challenge_id, e.participant_id, steps)
    \/ \E q \in Tabs : EdUpdate(q)
    \/ \E q \in Tabs : EdSelect(q)
    \/ \E q \in Tabs : EdWrite(q)

SpecEdits == InitEdits /\ [][NextEdits]_vars

\* both calls have returned
BothEdited == \A q \in Tabs : up[q].pc = "done"

\* C29 (as claimed): when two updateLeaderboardEntry calls on different
\* entries of one week have both returned, whatever the interleaving of
\* their persistence calls, the points of the week's N entries are exactly
\* 1..N and an entry of more steps has more points.
C29_ConcurrentEditsConsistent ==
    BothEdited =>
        \A q \in Tabs :
            LET W == WeekEntries(leaderboard_entries, up[q].cid)
            IN  /\ PointsAreExactly(W)
                /\ \A a, b \in W : a.steps > b.steps => a.points > b.points


(***************************************************************************)
(* Analytics of a group in which participants share a name.                *)
(***************************************************************************)
\* the CSV files of a single participant
NameFiles == {f \in CsvFiles : Len(f.rows) = 1}

\* uploads, joins and manual entries, then one analytics read
NextNames ==
    \/ /\ view = <<>>
       /\ \/ \E g \in DataGroups, f \in NameFiles : Upload(g, f.dates, f.rows)
          \/ \E u \in Users, g \in DataGroups : JoinGroup(u, g)
          \/ \E g \in DataGroups, name \in FormNames, c \in weekly_challenges,
                steps \in FormSteps : ManualEntry(g, name, c.id, steps)
    \/ /\ view = <<>>
       /\ \/ \E g \in DataGroups, w \in ReadWeeks : ReadWeeklyAnalytics(g, w)
          \/ \E g \in DataGroups : ReadOverallAnalytics(g)

SpecNames == InitRead /\ [][NextNames]_vars

\* the participants that have a row in dailyData
IdsOf(data) == {data[i].participant_id : i \in DOMAIN data}

\* the number of rows of dailyData that belong to participant pid
RowsOfId(data, pid) == Cardinality({i \in DOMAIN data : data[i].participant_id = pid})

\* C30 (as claimed): the analytics hold one set of statistics per
\* participant row: the number of participants reported is the number of
\* participant rows with daily data, and the active days of each are the
\* daily rows of one participant row.
C30_StatisticsPerParticipantRow ==
    (/\ view # <<>>
     /\ view.g # NoGroup
     /\ view.op = "analytics" \/ (view.op = "weekly" /\ view.w # NoWeek)) =>
        /\ view.rows.totalParticipants = Cardinality(IdsOf(view.data))
        /\ \A i \in DOMAIN ParticipantsOf(view.data) :
               \E pid \in IdsOf(view.data) :
                   ParticipantsOf(view.data)[i].activeDays = RowsOfId(view.data, pid)

====
